---- MODULE Spec2Model ----
(***************************************************************************)
(* Model of the emergence engine core (src/emergence_engine): the RePair   *)
(* grammar inducer, the grammar table, the MDL scorer, the entropy         *)
(* function, the emergence detector and the engine orchestrator.           *)
(*                                                                         *)
(* Tokens and symbol values are strings.  A grammar is a record            *)
(*   [rules, terminals, non_terminals, start_symbol]                       *)
(* where rules is the insertion-ordered rule table (a sequence of          *)
(* [lhs, rhs, frequency, probability] records, Python dict order) and      *)
(* terminals / non_terminals are the key sets of the two symbol tables.    *)
(* Real numbers are kept exact where the claims need them:                 *)
(*   - a probability or a coverage is a fraction [num, den];               *)
(*   - an MDL cost is [bits, syms, V], standing for bits + syms*log2(V);   *)
(*   - an entropy is an integer number of micro-bits.                      *)
(***************************************************************************)
EXTENDS Integers, Sequences, FiniteSets, TLC

VARIABLES
    tokens,      \* the tokenized input of process / process_sliding
    cfg,         \* the keyword arguments of the call
    pc,          \* position of the call
    sequence,    \* RePair working sequence
    grammar,     \* RePair working grammar
    rule_id,     \* RePair next rule number
    snapshots,   \* compress_trace snapshots
    changed,     \* _inline_singletons loop flag
    windows,     \* process_sliding token windows
    widx,        \* process_sliding: number of windows already induced
    wgrammars,   \* process_sliding: per-window grammars
    mdl_totals,  \* process_sliding: per-window MDL totals
    result,      \* the EngineResult returned (or the error raised)
    heap,        \* identities of the inducer's mutable objects
    dgrammars,   \* EmergenceDetector.detect: the grammars argument
    dself,       \* EmergenceDetector.detect: the detector's fields
    dloop        \* EmergenceDetector.detect: the locals of the gating loop

vars == <<tokens, cfg, pc, sequence, grammar, rule_id, snapshots, changed,
          windows, widx, wgrammars, mdl_totals, result, heap, dgrammars, dself,
          dloop>>

\* The variables of a direct call of EmergenceDetector.detect.
dvars == <<dgrammars, dself, dloop>>

(***************************************************************************)
(* Bounds of the model.                                                    *)
(***************************************************************************)
MaxLen == 5
MaxLongLen == 8
MaxSlideLen == 4
MaxSlideLongLen == 6

\* The token alphabet: two lower-case words, one upper-case word and one
\* word spelled like a generated rule name.
Alphabet == {"a", "b", "A", "R1"}

\* Two-word alphabets for the longer inputs: plain words, and a plain word
\* with a word spelled like a generated rule name.
PlainPair == {"a", "b"}
NamePair == {"a", "R1"}

\* The alphabet of the sliding calls.
SlideAlphabet == {"a", "b", "R1"}

\* The sequences over S of length at most n.
SeqsUpTo(S, n) == UNION {[1..k -> S] : k \in 0..n}

Max2(x, y) == IF x >= y THEN x ELSE y
Abs(x) == IF x < 0 THEN -x ELSE x

RECURSIVE SumSeq(_)
SumSeq(s) == IF s = <<>> THEN 0 ELSE Head(s) + SumSeq(Tail(s))

RECURSIVE Flatten(_)
Flatten(ss) == IF ss = <<>> THEN <<>> ELSE Head(ss) \o Flatten(Tail(ss))

CountIn(s, v) == Cardinality({i \in 1..Len(s) : s[i] = v})
Elems(s) == {s[i] : i \in 1..Len(s)}

(***************************************************************************)
(* symbols.py / grammar.py                                                 *)
(***************************************************************************)
\* str.isupper() on the values the model uses: the upper-case input words
\* and the generated names "R<n>".
UpperWords == {"A", "R1"}
IsUpper(value) ==
    \/ value \in UpperWords
    \/ \E n \in 1..MaxLongLen : value = "R" \o ToString(n)

EmptyGrammar ==
    [rules |-> <<>>, terminals |-> {}, non_terminals |-> {}, start_symbol |-> "S"]

RuleKeys(g) == [i \in 1..Len(g.rules) |-> g.rules[i].lhs]
HasRule(g, lhs) == \E i \in 1..Len(g.rules) : g.rules[i].lhs = lhs
RuleIndex(g, lhs) == CHOOSE i \in 1..Len(g.rules) : g.rules[i].lhs = lhs

\* Grammar._get_symbol: non-terminals first, then terminals, else register a
\* new symbol whose kind is decided by value.isupper().
GetSymbol(g, value) ==
    IF value \in g.non_terminals THEN g
    ELSE IF value \in g.terminals THEN g
    ELSE IF IsUpper(value)
         THEN [g EXCEPT !.non_terminals = @ \cup {value}]
         ELSE [g EXCEPT !.terminals = @ \cup {value}]

RECURSIVE GetSymbols(_, _)
GetSymbols(g, values) ==
    IF values = <<>> THEN g
    ELSE GetSymbols(GetSymbol(g, Head(values)), Tail(values))

NewRule(lhs, rhs) ==
    [lhs |-> lhs, rhs |-> rhs, frequency |-> 0, probability |-> [num |-> 0, den |-> 1]]

\* Grammar.add_rule: intern the LHS, resolve the RHS, store the rule under
\* its LHS (an existing key keeps its place in the table).
AddRule(g, lhs_name, rhs_values) ==
    LET g1 == [g EXCEPT !.non_terminals = @ \cup {lhs_name}]
        g2 == GetSymbols(g1, rhs_values)
        rule == NewRule(lhs_name, rhs_values)
    IN  IF HasRule(g2, lhs_name)
        THEN [g2 EXCEPT !.rules[RuleIndex(g2, lhs_name)] = rule]
        ELSE [g2 EXCEPT !.rules = Append(@, rule)]

\* Grammar.as_tuples()[lhs]
RhsOf(g, lhs) == g.rules[RuleIndex(g, lhs)].rhs

\* Grammar.clone: fresh symbol tables with the same names, the rules added
\* again in table order, frequencies and probabilities copied.
RECURSIVE CloneRules(_, _)
CloneRules(g, rules) ==
    IF rules = <<>> THEN g
    ELSE LET r == Head(rules)
             g1 == AddRule(g, r.lhs, r.rhs)
             i == RuleIndex(g1, r.lhs)
             g2 == [g1 EXCEPT !.rules[i].frequency = r.frequency,
                              !.rules[i].probability = r.probability]
         IN  CloneRules(g2, Tail(rules))

Clone(g) ==
    CloneRules([EmptyGrammar EXCEPT !.non_terminals = g.non_terminals,
                                    !.terminals = g.terminals],
               g.rules)

(***************************************************************************)
(* repair.py                                                               *)
(***************************************************************************)
\* f"{self.prefix}{rule_id}" with the default prefix "R".
RuleName(id) == "R" \o ToString(id)

\* RePair._digram_counts: Counter(zip(sequence, sequence[1:])) as the list of
\* its items in insertion order, i.e. in order of first occurrence.
RECURSIVE CountItems(_, _, _)
CountItems(s, i, items) ==
    IF i >= Len(s) THEN items
    ELSE LET d == <<s[i], s[i + 1]>>
             seen == \E k \in 1..Len(items) : items[k].digram = d
             bumped == [k \in 1..Len(items) |->
                           IF items[k].digram = d
                           THEN [items[k] EXCEPT !.freq = @ + 1]
                           ELSE items[k]]
         IN  CountItems(s, i + 1,
                        IF seen THEN bumped
                        ELSE Append(items, [digram |-> d, freq |-> 1]))

DigramCounts(s) == CountItems(s, 1, <<>>)

\* Mutant of MaxItem: the last item of largest count.
MaxItemLast(items) ==
    LET i == CHOOSE k \in 1..Len(items) :
                 /\ \A j \in 1..Len(items) : items[j].freq <= items[k].freq
                 /\ \A j \in (k + 1)..Len(items) : items[j].freq < items[k].freq
    IN  items[i]

\* max(counts.items(), key=lambda kv: kv[1]): the first item of largest count.
MaxItem(items) ==
    LET i == CHOOSE k \in 1..Len(items) :
                 /\ \A j \in 1..Len(items) : items[j].freq <= items[k].freq
                 /\ \A j \in 1..(k - 1) : items[j].freq < items[k].freq
    IN  items[i]

\* Mutant of ReplaceFrom: the scan advances by 1 after a replacement.
RECURSIVE ReplaceFromOverlapping(_, _, _, _)
ReplaceFromOverlapping(s, i, digram, lhs) ==
    IF i > Len(s) THEN <<>>
    ELSE IF i < Len(s) /\ s[i] = digram[1] /\ s[i + 1] = digram[2]
         THEN <<lhs>> \o ReplaceFromOverlapping(s, i + 1, digram, lhs)
         ELSE <<s[i]>> \o ReplaceFromOverlapping(s, i + 1, digram, lhs)

\* Mutant of ReplaceFrom: only the first occurrence of the digram is replaced.
RECURSIVE ReplaceFromOnce(_, _, _, _)
ReplaceFromOnce(s, i, digram, lhs) ==
    IF i > Len(s) THEN <<>>
    ELSE IF i < Len(s) /\ s[i] = digram[1] /\ s[i + 1] = digram[2]
         THEN <<lhs>> \o SubSeq(s, i + 2, Len(s))
         ELSE <<s[i]>> \o ReplaceFromOnce(s, i + 1, digram, lhs)

\* RePair._replace_all: left-to-right, non-overlapping.
RECURSIVE ReplaceFrom(_, _, _, _)
ReplaceFrom(s, i, digram, lhs) ==
    IF i > Len(s) THEN <<>>
    ELSE IF i < Len(s) /\ s[i] = digram[1] /\ s[i + 1] = digram[2]
         THEN <<lhs>> \o ReplaceFrom(s, i + 2, digram, lhs)
         ELSE <<s[i]>> \o ReplaceFrom(s, i + 1, digram, lhs)

ReplaceAll(s, digram, lhs) == ReplaceFrom(s, 1, digram, lhs)

\* RePair._collect_symbol_usage(...).get(v, 0): occurrences of v in the
\* sequence plus in the RHS of every rule of the table.
UsageOf(s, g, v) ==
    CountIn(s, v) + SumSeq([i \in 1..Len(g.rules) |-> CountIn(g.rules[i].rhs, v)])

\* RePair._update_rule_usage: frequency := usage of the LHS; probability :=
\* frequency / (sum of frequencies or 1).
UpdateRuleUsage(s, g) ==
    LET freq == [i \in 1..Len(g.rules) |-> UsageOf(s, g, g.rules[i].lhs)]
        sum == SumSeq(freq)
        total == IF sum = 0 THEN 1 ELSE sum
    IN  [g EXCEPT !.rules = [i \in 1..Len(g.rules) |->
            [g.rules[i] EXCEPT !.frequency = freq[i],
                               !.probability = [num |-> freq[i], den |-> total]]]]

\* The loop test of compress / compress_trace: counts non-empty and the
\* chosen digram seen at least twice.
CanSubstitute(s) ==
    LET items == DigramCounts(s)
    IN  items # <<>> /\ MaxItem(items).freq >= 2

\* Mutant of Substitute: the rule added with its RHS reversed.
SubstituteSwapped(s, g, id) ==
    LET digram == MaxItem(DigramCounts(s)).digram
        lhs == RuleName(id)
    IN  [sequence |-> ReplaceAll(s, digram, lhs),
         grammar |-> AddRule(g, lhs, <<digram[2], digram[1]>>)]

\* One iteration of the main loop: [sequence, grammar] after add_rule and
\* _replace_all.
Substitute(s, g, id) ==
    LET digram == MaxItem(DigramCounts(s)).digram
        lhs == RuleName(id)
    IN  [sequence |-> ReplaceAll(s, digram, lhs),
         grammar |-> AddRule(g, lhs, <<digram[1], digram[2]>>)]

\* Mutant of InlineFirst: `sequence[idx:idx] = rhs`, the RHS inserted in
\* front of the rule name, which stays in the sequence.
InlineFirstInsert(s, lhs, rhs) ==
    LET idx == CHOOSE i \in 1..Len(s) : s[i] = lhs /\ \A j \in 1..(i - 1) : s[j] # lhs
    IN  SubSeq(s, 1, idx - 1) \o rhs \o SubSeq(s, idx, Len(s))

\* sequence[idx:idx + 1] = rhs at idx = sequence.index(lhs)
InlineFirst(s, lhs, rhs) ==
    LET idx == CHOOSE i \in 1..Len(s) : s[i] = lhs /\ \A j \in 1..(i - 1) : s[j] # lhs
    IN  SubSeq(s, 1, idx - 1) \o rhs \o SubSeq(s, idx + 1, Len(s))

\* new_rhs of the inner loop: every occurrence of lhs replaced by rhs.
InlineInRhs(r_rhs, lhs, rhs) ==
    Flatten([i \in 1..Len(r_rhs) |-> IF r_rhs[i] = lhs THEN rhs ELSE <<r_rhs[i]>>])

\* The inlining of rule lhs on the loop state st = [sequence, grammar,
\* changed] (lines 129-149): once in the sequence, everywhere in the other
\* rules' RHSes, then del grammar.rules[lhs].
InlineApply(st, lhs) ==
    LET g == st.grammar
        rhs == RhsOf(g, lhs)
        inSeq == lhs \in Elems(st.sequence)
        inRules == \E i \in 1..Len(g.rules) :
                       g.rules[i].lhs # lhs /\ lhs \in Elems(g.rules[i].rhs)
        rewritten == [i \in 1..Len(g.rules) |->
                         IF g.rules[i].lhs = lhs THEN g.rules[i]
                         ELSE [g.rules[i] EXCEPT !.rhs = InlineInRhs(@, lhs, rhs)]]
        others == [i \in 1..Len(g.rules) |->
                      IF g.rules[i].lhs = lhs THEN <<>> ELSE rewritten[i].rhs]
        g1 == GetSymbols([g EXCEPT !.rules = rewritten], Flatten(others))
        kept == SelectSeq(g1.rules, LAMBDA r : r.lhs # lhs)
    IN  [sequence |-> IF inSeq THEN InlineFirst(st.sequence, lhs, rhs)
                      ELSE st.sequence,
         grammar |-> [g1 EXCEPT !.rules = kept],
         changed |-> st.changed \/ inSeq \/ inRules]

\* Mutant of InlineRule: the utility test written `< 1` instead of `<= 1`.
InlineRuleBelowOne(st, lhs, usage) ==
    IF usage > 0 THEN st ELSE InlineApply(st, lhs)

\* The body of `for lhs in list(grammar.rules.keys())` for one lhs: rules
\* used more than once are kept; usage is the count taken at the start of
\* the pass.
InlineRule(st, lhs, usage) ==
    IF usage > 1 THEN st ELSE InlineApply(st, lhs)

RECURSIVE InlineKeys(_, _, _, _)
InlineKeys(st, keys, s0, g0) ==
    IF keys = <<>> THEN st
    ELSE InlineKeys(InlineRule(st, Head(keys), UsageOf(s0, g0, Head(keys))),
                    Tail(keys), s0, g0)

\* One iteration of `while changed and grammar.rules`: changed := False, the
\* usage counted once, then every key of the table in order.
InlinePass(s, g) ==
    InlineKeys([sequence |-> s, grammar |-> g, changed |-> FALSE], RuleKeys(g), s, g)

\* RePair._inline_singletons, run to its fixpoint.
RECURSIVE InlineLoop(_)
InlineLoop(st) ==
    IF st.changed /\ st.grammar.rules # <<>>
    THEN InlineLoop(InlinePass(st.sequence, st.grammar))
    ELSE st

InlineSingletons(s, g) ==
    InlineLoop([sequence |-> s, grammar |-> g, changed |-> TRUE])

\* RePair.compress, as the function of its input: the main loop, then
\* _inline_singletons, then _update_rule_usage.
RECURSIVE MainLoop(_, _, _)
MainLoop(s, g, id) ==
    IF CanSubstitute(s)
    THEN LET n == Substitute(s, g, id) IN MainLoop(n.sequence, n.grammar, id + 1)
    ELSE [sequence |-> s, grammar |-> g]

Compress(toks) ==
    LET m == MainLoop(toks, EmptyGrammar, 1)
        done == {[sequence |-> i.sequence,
                  grammar |-> UpdateRuleUsage(i.sequence, i.grammar)] :
                    i \in {InlineSingletons(m.sequence, m.grammar)}}
    IN  CHOOSE r \in done : TRUE

\* RePair.reconstruct.  expand_symbol recurses once per nested rule; a chain
\* of nested expansions longer than the rule table repeats a rule, so the
\* recursion never returns and Python raises RecursionError: ok = FALSE.
RECURSIVE ExpandSymbol(_, _, _)
ExpandSymbol(sym, g, depth) ==
    IF HasRule(g, sym)
    THEN IF depth = 0 THEN [ok |-> FALSE, out |-> <<>>]
         ELSE LET rhs == RhsOf(g, sym)
                  parts == [i \in 1..Len(rhs) |-> ExpandSymbol(rhs[i], g, depth - 1)]
              IN  [ok |-> \A i \in 1..Len(rhs) : parts[i].ok,
                   out |-> Flatten([i \in 1..Len(rhs) |-> parts[i].out])]
    ELSE [ok |-> TRUE, out |-> <<sym>>]

Reconstruct(compressed, g) ==
    LET parts == [i \in 1..Len(compressed) |->
                     ExpandSymbol(compressed[i], g, Len(g.rules))]
    IN  [ok |-> \A i \in 1..Len(compressed) : parts[i].ok,
         out |-> Flatten([i \in 1..Len(compressed) |-> parts[i].out])]

(***************************************************************************)
(* Object identities.  The values above say what the inducer's objects     *)
(* hold; heap says which Python objects they are.  Every list(...), list   *)
(* literal, Grammar() and ProductionRule(...) allocates a fresh identity.  *)
(*   heap.sequence, heap.grammar : the working list and Grammar;           *)
(*   heap.rules : per entry of grammar.rules, in table order, the          *)
(*                ProductionRule object and its rhs list;                  *)
(*   heap.snapshots : the same three for each snapshot's pair.             *)
(* Identity 0 is the caller's token list.                                  *)
(***************************************************************************)
EmptyHeap ==
    [next |-> 1, sequence |-> 0, grammar |-> 0, rules |-> <<>>, snapshots |-> <<>>]

\* sequence = list(tokens); grammar = Grammar()
HeapStart ==
    [next |-> 3, sequence |-> 1, grammar |-> 2, rules |-> <<>>, snapshots |-> <<>>]

\* grammar.add_rule(lhs, ...) on the table of g: a new ProductionRule with a
\* new rhs list, stored under lhs.
HeapAddRule(h, g, lhs) ==
    LET entry == [lhs |-> lhs, rule |-> h.next, rhs |-> h.next + 1]
    IN  [h EXCEPT !.next = @ + 2,
                  !.rules = IF HasRule(g, lhs)
                            THEN [@ EXCEPT ![RuleIndex(g, lhs)] = entry]
                            ELSE Append(@, entry)]

\* sequence = self._replace_all(sequence, digram, lhs): the list `out`.
HeapReplaceAll(h) == [h EXCEPT !.next = @ + 1, !.sequence = h.next]

\* Mutant of CloneObjects: the rule table copied shallowly (the new Grammar
\* holds the original's ProductionRule objects).
CloneObjectsShallow(rules, next) ==
    [grammar |-> next, rules |-> rules]

\* Grammar.clone: a new Grammar, and per rule a new ProductionRule (add_rule)
\* with a new rhs list.
CloneObjects(rules, next) ==
    [grammar |-> next,
     rules |-> [i \in 1..Len(rules) |->
                   [lhs |-> rules[i].lhs, rule |-> next + 2 * i - 1, rhs |-> next + 2 * i]]]

\* snapshots.append((list(sequence), grammar.clone()))
HeapSnapshot(h) ==
    LET c == CloneObjects(h.rules, h.next + 1)
    IN  [h EXCEPT !.next = @ + 2 + 2 * Len(h.rules),
                  !.snapshots = Append(@, [sequence |-> h.next,
                                           grammar |-> c.grammar,
                                           rules |-> c.rules])]

\* One pass of _inline_singletons ending with the table of g: the sequence
\* is spliced in place, the deleted rules leave the table, and when a rule
\* was inlined every remaining rule has been given a new rhs list.
HeapInline(h, g) ==
    LET kept == SelectSeq(h.rules, LAMBDA e : HasRule(g, e.lhs))
        inlined == Len(kept) < Len(h.rules)
    IN  IF ~inlined THEN h
        ELSE [h EXCEPT !.next = @ + Len(kept),
                       !.rules = [i \in 1..Len(kept) |->
                                     [kept[i] EXCEPT !.rhs = h.next + i - 1]]]

\* Mutant of Snapshot: the pair is inlined before it is recorded.
SnapshotInlined(s, g) ==
    LET i == InlineSingletons(s, Clone(g))
    IN  [sequence |-> i.sequence, grammar |-> UpdateRuleUsage(i.sequence, i.grammar)]

\* The snapshot of compress_trace: a copy of the list and a clone of the
\* grammar.
Snapshot(s, g) == [sequence |-> s, grammar |-> Clone(g)]

(***************************************************************************)
(* mdl.py.  A cost [bits, syms, V] stands for bits + syms * log2(V).       *)
(***************************************************************************)
RECURSIVE FloorLog2(_)
FloorLog2(n) == IF n < 2 THEN 0 ELSE 1 + FloorLog2(n \div 2)

\* Mutant of EliasGammaLength: the stop bit left out.
EliasGammaLengthNoStop(n) ==
    LET m == IF n <= 0 THEN 1 ELSE n
    IN  2 * FloorLog2(m)

\* elias_gamma_length: 2*floor(log2(n)) + 1, with n <= 0 mapped to 1.
EliasGammaLength(n) ==
    LET m == IF n <= 0 THEN 1 ELSE n
    IN  2 * FloorLog2(m) + 1

Cost(bits, syms, V) == [bits |-> bits, syms |-> syms, V |-> V]

\* a + b for two costs over the same vocabulary size.
CostAdd(a, b) == Cost(a.bits + b.bits, a.syms + b.syms, a.V)

\* len(set(tokens)) or 2
SigmaOf(toks) == IF Elems(toks) = {} THEN 2 ELSE Cardinality(Elems(toks))

\* MDLScorer.score_components; _safe_log2 clamps its argument at 2.
ScoreComponents(g, compressed, terminals_size) ==
    LET sigma == Max2(2, terminals_size)
        V == Max2(2, Max2(2, sigma + Len(g.rules)))
        grammar_cost == Cost(0, SumSeq([i \in 1..Len(g.rules) |-> Len(g.rules[i].rhs)]), V)
        n == Len(compressed)
        data_cost == Cost(EliasGammaLength(n), n, V)
    IN  [grammar_cost |-> grammar_cost,
         data_cost |-> data_cost,
         total |-> CostAdd(grammar_cost, data_cost)]

\* MDLScorer.score with terminals_size given.
Score(g, compressed, terminals_size) ==
    ScoreComponents(g, compressed, terminals_size).total

\* MDLScorer.naive_baseline
NaiveBaseline(original_tokens) ==
    LET sigma == Max2(2, SigmaOf(original_tokens))
        n == Len(original_tokens)
    IN  Cost(EliasGammaLength(n), n, Max2(2, sigma))

\* The float 1.0 as a ratio of costs.
RatioOne == [num |-> Cost(1, 0, 2), den |-> Cost(1, 0, 2)]

\* MDLScorer.compression_ratio: original_size / compressed_size, 1.0 when
\* compressed_size == 0 (log2(V) >= 1, so a cost is 0 only when both parts are).
CompressionRatio(original_tokens, compressed, g) ==
    LET sigma == Max2(2, SigmaOf(original_tokens))
        original_size == NaiveBaseline(original_tokens)
        compressed_size == Score(g, compressed, sigma)
    IN  IF compressed_size.bits = 0 /\ compressed_size.syms = 0
        THEN RatioOne
        ELSE [num |-> original_size, den |-> compressed_size]

\* Exact value tests on costs and ratios: 2^(bits + syms*log2 V) = 2^bits * V^syms.
RECURSIVE Pow(_, _)
Pow(b, e) == IF e = 0 THEN 1 ELSE b * Pow(b, e - 1)

CostExp(c) == Pow(2, c.bits) * Pow(c.V, c.syms)
RatioIsOne(r) == CostExp(r.num) = CostExp(r.den)

(***************************************************************************)
(* Python floats.  The detector computes in IEEE 754 binary64, and its     *)
(* comparisons (norm >= thr, d2 < 0) depend on the rounding of every       *)
(* operation, so a float is modelled bit for bit: [s, m, e] stands for     *)
(* (-1)^s * m * 2^e with m an integer of exactly 53 bits, or m = 0 for     *)
(* zero.  TLC's integers have 32 bits, so m is a natural number held as    *)
(* the little-endian sequence of its base-2^15 digits, without leading     *)
(* zero digits (0 is <<>>).  Every operation computes the exact result and *)
(* rounds it to nearest, ties to even.  Subnormals, infinities and NaN are *)
(* outside the range the detector reaches; the sign of zero is not kept    *)
(* (no comparison of the code tells -0.0 from 0.0).                        *)
(***************************************************************************)
\* The element of a one-element set: The({e(x) : x \in {v}}) is e at the
\* value of v, computed once.
The(S) == CHOOSE x \in S : TRUE

Base == 32768
BaseBits == 15
MantBits == 53

\* 2^k for 0 <= k <= BaseBits
Pow2(k) ==
    <<1, 2, 4, 8, 16, 32, 64, 128, 256, 512, 1024, 2048, 4096, 8192, 16384,
      32768>>[k + 1]

RECURSIVE BTrim(_)
BTrim(a) ==
    IF a # <<>> /\ a[Len(a)] = 0 THEN BTrim(SubSeq(a, 1, Len(a) - 1)) ELSE a

BLimb(a, i) == IF i <= Len(a) THEN a[i] ELSE 0

RECURSIVE BFromInt(_)
BFromInt(n) == IF n = 0 THEN <<>> ELSE <<n % Base>> \o BFromInt(n \div Base)

\* -1, 0, 1 as a < b, a = b, a > b.
RECURSIVE BCmpFrom(_, _, _)
BCmpFrom(a, b, i) ==
    IF i = 0 THEN 0
    ELSE IF a[i] < b[i] THEN -1
    ELSE IF a[i] > b[i] THEN 1
    ELSE BCmpFrom(a, b, i - 1)

BCmp(a, b) ==
    IF Len(a) < Len(b) THEN -1
    ELSE IF Len(a) > Len(b) THEN 1
    ELSE BCmpFrom(a, b, Len(a))

RECURSIVE BAddFrom(_, _, _, _)
BAddFrom(a, b, i, c) ==
    IF i > Len(a) /\ i > Len(b) THEN (IF c = 0 THEN <<>> ELSE <<c>>)
    ELSE LET sum == BLimb(a, i) + BLimb(b, i) + c
         IN  <<sum % Base>> \o BAddFrom(a, b, i + 1, sum \div Base)

BAdd(a, b) == BAddFrom(a, b, 1, 0)

\* a - b for a >= b.
RECURSIVE BSubFrom(_, _, _, _)
BSubFrom(a, b, i, c) ==
    IF i > Len(a) THEN <<>>
    ELSE LET d == a[i] - BLimb(b, i) - c
         IN  IF d < 0 THEN <<d + Base>> \o BSubFrom(a, b, i + 1, 1)
             ELSE <<d>> \o BSubFrom(a, b, i + 1, 0)

BSub(a, b) == BTrim(BSubFrom(a, b, 1, 0))

\* a * k for a digit 0 <= k < Base.
RECURSIVE BMulSmallFrom(_, _, _, _)
BMulSmallFrom(a, k, i, c) ==
    IF i > Len(a) THEN (IF c = 0 THEN <<>> ELSE <<c>>)
    ELSE LET p == a[i] * k + c
         IN  <<p % Base>> \o BMulSmallFrom(a, k, i + 1, p \div Base)

BMulSmall(a, k) == IF k = 0 THEN <<>> ELSE BMulSmallFrom(a, k, 1, 0)

RECURSIVE BMulFrom(_, _, _)
BMulFrom(a, b, j) ==
    IF j > Len(b) THEN <<>>
    ELSE The({BAdd(BMulSmall(a, b[j]), IF rest = <<>> THEN <<>> ELSE <<0>> \o rest) :
                 rest \in {BMulFrom(a, b, j + 1)}})

BMul(a, b) == The({BMulFrom(x, y, 1) : x \in {a}, y \in {b}})

Zeros(n) == [i \in 1..n |-> 0]

\* a * 2^k
BShl(a, k) ==
    IF a = <<>> \/ k = 0 THEN a
    ELSE IF k % BaseBits = 0 THEN Zeros(k \div BaseBits) \o a
    ELSE Zeros(k \div BaseBits) \o BMulSmall(a, Pow2(k % BaseBits))

\* a \div d for a digit 0 < d < Base: the quotient digits from the top.
RECURSIVE BDivSmallFrom(_, _, _, _)
BDivSmallFrom(a, d, i, r) ==
    IF i = 0 THEN <<>>
    ELSE LET cur == r * Base + a[i]
         IN  Append(BDivSmallFrom(a, d, i - 1, cur % d), cur \div d)

BDivSmall(a, d) == BTrim(BDivSmallFrom(a, d, Len(a), 0))

\* floor(a / 2^k)
BShr(a, k) ==
    IF k \div BaseBits >= Len(a) THEN <<>>
    ELSE IF k % BaseBits = 0 THEN SubSeq(a, k \div BaseBits + 1, Len(a))
    ELSE BDivSmall(SubSeq(a, k \div BaseBits + 1, Len(a)), Pow2(k % BaseBits))

\* The number of bits of a digit, by halving.
BitLen2(n) == IF n >= 2 THEN 2 ELSE n
BitLen4(n) == IF n >= 4 THEN 2 + BitLen2(n \div 4) ELSE BitLen2(n)
BitLen8(n) == IF n >= 16 THEN 4 + BitLen4(n \div 16) ELSE BitLen4(n)
BitLenSmall(n) == IF n >= 256 THEN 8 + BitLen8(n \div 256) ELSE BitLen8(n)

BBitLen(a) ==
    IF a = <<>> THEN 0 ELSE BaseBits * (Len(a) - 1) + BitLenSmall(a[Len(a)])

\* Bit k of a, the lowest being bit 0.
BBit(a, k) == (BLimb(a, k \div BaseBits + 1) \div Pow2(k % BaseBits)) % 2

\* Some bit of a below bit k is set.
BLowBits(a, k) ==
    \/ \E i \in 1..(k \div BaseBits) : BLimb(a, i) # 0
    \/ BLimb(a, k \div BaseBits + 1) % Pow2(k % BaseBits) # 0

\* Long division a by b, b with its top digit >= Base / 2 (so that the
\* digit estimated from the two top digits of the remainder is at most 2
\* too large): [q, r] with a = q * b + r, 0 <= r < b.
RECURSIVE BFitDigit(_, _, _)
BFitDigit(r, b, q) ==
    IF BCmp(BMulSmall(b, q), r) > 0 THEN BFitDigit(r, b, q - 1) ELSE q

RECURSIVE BDivModFrom(_, _, _, _)
BDivModFrom(a, b, i, r) ==
    IF i = 0 THEN [q |-> <<>>, r |-> r]
    ELSE LET n == Len(b)
             Est(cur) == (BLimb(cur, n + 1) * Base + BLimb(cur, n)) \div b[n]
             Digit(cur) ==
                 BFitDigit(cur, b, IF Est(cur) >= Base THEN Base - 1 ELSE Est(cur))
             Rest(cur, q) == BDivModFrom(a, b, i - 1, BSub(cur, BMulSmall(b, q)))
         IN  The({[q |-> Append(c[3].q, c[2]), r |-> c[3].r] :
                     c \in {<<d[1], d[2], Rest(d[1], d[2])>> :
                               d \in {<<cur, Digit(cur)>> :
                                         cur \in {BTrim(<<a[i]>> \o r)}}}})

\* The digits of a above the lowest Len(b) - 1 ones are its first remainder:
\* it is below b, and the quotient has no digit there.
BDivMod(a, b) ==
    LET sh == BaseBits - BitLenSmall(b[Len(b)])
        res == {IF Len(x) < Len(y) THEN [q |-> <<>>, r |-> x]
                ELSE BDivModFrom(x, y, Len(x) - Len(y) + 1,
                                 SubSeq(x, Len(x) - Len(y) + 2, Len(x))) :
                   x \in {BShl(a, sh)}, y \in {BShl(b, sh)}}
    IN  The({[q |-> BTrim(t.q), r |-> t.r] : t \in res})

FZero == [s |-> 0, m |-> <<>>, e |-> 0]

\* The mantissa of the powers of two, 2^(MantBits - 1).
MantOne == <<0, 0, 0, 128>>

\* The float nearest to (M + f) * 2^E, ties to even, for the natural number
\* M and a fraction 0 <= f < 1 that is nonzero exactly when sticky; with
\* sticky, M has more than MantBits + 1 bits.
FRound(s, M, E, sticky) ==
    LET \* M cut by sh > 0 bits and rounded
        Cut(N, sh) ==
            The({IF BBit(N, sh - 1) = 1
                    /\ (sticky \/ BLowBits(N, sh - 1) \/ BBit(q, 0) = 1)
                 THEN BAdd(q, <<1>>) ELSE q : q \in {BShr(N, sh)}})
        Rounded(N, sh) ==
            The({IF BBitLen(m) > MantBits
                 THEN [s |-> s, m |-> BShr(m, 1), e |-> E + sh + 1]
                 ELSE [s |-> s, m |-> m, e |-> E + sh] : m \in {Cut(N, sh)}})
    IN  The({IF p[1] = <<>> THEN FZero
             ELSE IF p[2] <= 0
             THEN [s |-> s, m |-> BShl(p[1], -p[2]), e |-> E + p[2]]
             ELSE Rounded(p[1], p[2]) :
                p \in {<<N, BBitLen(N) - MantBits>> : N \in {M}}})

\* float(n) of an int n.
FromInt(n) == FRound(IF n < 0 THEN 1 ELSE 0, BFromInt(IF n < 0 THEN -n ELSE n), 0, FALSE)

FNeg(a) == IF a.m = <<>> THEN a ELSE [a EXCEPT !.s = 1 - a.s]

FAbs(a) == [a EXCEPT !.s = 0]

\* -1, 0, 1 as |a| < |b|, |a| = |b|, |a| > |b|.
FCmpAbs(a, b) ==
    IF a.m = <<>> THEN (IF b.m = <<>> THEN 0 ELSE -1)
    ELSE IF b.m = <<>> THEN 1
    ELSE IF a.e < b.e THEN -1
    ELSE IF a.e > b.e THEN 1
    ELSE BCmp(a.m, b.m)

\* -1, 0, 1 as a < b, a == b, a > b.
FCmp(a, b) ==
    The({IF x.m = <<>> /\ y.m = <<>> THEN 0
         ELSE IF x.s # y.s THEN (IF x.s = 1 THEN -1 ELSE 1)
         ELSE The({IF x.s = 0 THEN c ELSE -c : c \in {FCmpAbs(x, y)}}) :
            x \in {a}, y \in {b}})

FLess(a, b) == FCmp(a, b) < 0
FLeq(a, b) == FCmp(a, b) <= 0
FGeq(a, b) == FCmp(a, b) >= 0

\* The widest gap of exponents at which both operands of a sum are aligned
\* exactly; beyond it the smaller one only makes the sum inexact.
MaxAlign == 64

\* a + b
FAdd(a, b) ==
    LET \* |big| >= |small|, neither zero
        Ordered(big, small) ==
            LET far == big.e - small.e > MaxAlign
                shifted == BShl(big.m, IF far THEN 2 ELSE big.e - small.e)
                other == IF far THEN <<1>> ELSE small.m
            IN  FRound(big.s,
                       IF big.s # small.s THEN BSub(shifted, other)
                       ELSE IF far THEN shifted
                       ELSE BAdd(shifted, other),
                       IF far THEN big.e - 2 ELSE small.e,
                       far)
    IN  The({IF x.m = <<>> THEN y
             ELSE IF y.m = <<>> THEN x
             ELSE The({Ordered(p[1], p[2]) :
                          p \in {IF FCmpAbs(x, y) >= 0 THEN <<x, y>> ELSE <<y, x>>}}) :
                x \in {a}, y \in {b}})

\* a - b
FSub(a, b) == FAdd(a, FNeg(b))

\* a * b: by a power of two only the exponent changes.
FMul(a, b) ==
    The({IF x.m = <<>> \/ y.m = <<>> THEN FZero
         ELSE IF x.m = MantOne
         THEN [s |-> (x.s + y.s) % 2, m |-> y.m, e |-> x.e + y.e + MantBits - 1]
         ELSE IF y.m = MantOne
         THEN [s |-> (x.s + y.s) % 2, m |-> x.m, e |-> x.e + y.e + MantBits - 1]
         ELSE FRound((x.s + y.s) % 2, BMul(x.m, y.m), x.e + y.e, FALSE) :
            x \in {a}, y \in {b}})

\* The zero digits put below the dividend's mantissa, so that the quotient
\* has more than MantBits + 1 bits.
DivShift == 60

\* a / b for b # 0: by a power of two only the exponent changes.
FDiv(a, b) ==
    The({IF x.m = <<>> THEN FZero
         ELSE IF y.m = MantOne
         THEN [s |-> (x.s + y.s) % 2, m |-> x.m, e |-> x.e - y.e - (MantBits - 1)]
         ELSE The({FRound((x.s + y.s) % 2, d.q, x.e - y.e - DivShift, d.r # <<>>) :
                      d \in {BDivMod(BShl(x.m, DivShift), y.m)}}) :
            x \in {a}, y \in {b}})

(***************************************************************************)
(* emergence.py.  Entropies, curvatures and thresholds are Python floats.  *)
(***************************************************************************)
Frac(n, d) == [num |-> n, den |-> d]

\* The float of a decimal literal whose value is the fraction f: the float
\* nearest to it.
ToFloat(f) == FDiv(FromInt(f.num), FromInt(f.den))

FOne == FromInt(1)
FTwo == FromInt(2)
FHalf == ToFloat(Frac(1, 2))

\* max(a, b) of two floats.
FMax(a, b) == IF FLess(a, b) THEN b ELSE a

\* math.log2 at p, for the floats p = n / d with 1 <= n <= d <= 32: pairs
\* <<p, log2(p)>> as the C library computes them.
Log2Table ==
    {<<[s |-> 0, m |-> <<0, 0, 0, 128>>, e |-> -57],
         [s |-> 1, m |-> <<0, 0, 0, 160>>, e |-> -50]>>,
       <<[s |-> 0, m |-> <<4228, 4228, 4228, 132>>, e |-> -57],
         [s |-> 1, m |-> <<19790, 11480, 17507, 158>>, e |-> -50]>>,
       <<[s |-> 0, m |-> <<4369, 8738, 17476, 136>>, e |-> -57],
         [s |-> 1, m |-> <<16659, 23369, 671, 157>>, e |-> -50]>>,
       <<[s |-> 0, m |-> <<31638, 16948, 7909, 141>>, e |-> -57],
         [s |-> 1, m |-> <<9819, 9173, 14922, 155>>, e |-> -50]>>,
       <<[s |-> 0, m |-> <<9362, 9362, 9362, 146>>, e |-> -57],
         [s |-> 1, m |-> <<535, 32596, 27372, 153>>, e |-> -50]>>,
       <<[s |-> 0, m |-> <<12136, 31554, 23058, 151>>, e |-> -57],
         [s |-> 1, m |-> <<19982, 30063, 5124, 152>>, e |-> -50]>>,
       <<[s |-> 0, m |-> <<15124, 10082, 17644, 157>>, e |-> -57],
         [s |-> 1, m |-> <<28953, 9105, 13568, 150>>, e |-> -50]>>,
       <<[s |-> 0, m |-> <<5243, 3932, 27525, 163>>, e |-> -57],
         [s |-> 1, m |-> <<9073, 4851, 19772, 148>>, e |-> -50]>>,
       <<[s |-> 0, m |-> <<21845, 10922, 21845, 170>>, e |-> -57],
         [s |-> 1, m |-> <<28506, 20943, 23553, 146>>, e |-> -50]>>,
       <<[s |-> 0, m |-> <<8548, 12822, 2849, 178>>, e |-> -57],
         [s |-> 1, m |-> <<18261, 16437, 24706, 144>>, e |-> -50]>>,
       <<[s |-> 0, m |-> <<5958, 26810, 5957, 186>>, e |-> -57],
         [s |-> 1, m |-> <<11937, 31750, 22996, 142>>, e |-> -50]>>,
       <<[s |-> 0, m |-> <<1560, 12483, 1560, 195>>, e |-> -57],
         [s |-> 1, m |-> <<29041, 20771, 18158, 140>>, e |-> -50]>>,
       <<[s |-> 0, m |-> <<6554, 13107, 26214, 204>>, e |-> -57],
         [s |-> 1, m |-> <<20921, 2425, 9886, 138>>, e |-> -50]>>,
       <<[s |-> 0, m |-> <<12072, 31043, 18970, 215>>, e |-> -57],
         [s |-> 1, m |-> <<4928, 27536, 30594, 135>>, e |-> -50]>>,
       <<[s |-> 0, m |-> <<18204, 14563, 18204, 227>>, e |-> -57],
         [s |-> 1, m |-> <<24244, 9119, 14339, 133>>, e |-> -50]>>,
       <<[s |-> 0, m |-> <<7710, 15420, 30840, 240>>, e |-> -57],
         [s |-> 1, m |-> <<9292, 14294, 26175, 130>>, e |-> -50]>>,
       <<[s |-> 0, m |-> <<0, 0, 0, 128>>, e |-> -56],
         [s |-> 1, m |-> <<0, 0, 0, 128>>, e |-> -50]>>,
       <<[s |-> 0, m |-> <<4228, 4228, 4228, 132>>, e |-> -56],
         [s |-> 1, m |-> <<6813, 22961, 2246, 253>>, e |-> -51]>>,
       <<[s |-> 0, m |-> <<4369, 8738, 17476, 136>>, e |-> -56],
         [s |-> 1, m |-> <<550, 13971, 1343, 250>>, e |-> -51]>>,
       <<[s |-> 0, m |-> <<31638, 16948, 7909, 141>>, e |-> -56],
         [s |-> 1, m |-> <<19639, 18346, 29844, 246>>, e |-> -51]>>,
       <<[s |-> 0, m |-> <<9362, 9362, 9362, 146>>, e |-> -56],
         [s |-> 1, m |-> <<1069, 32424, 21977, 243>>, e |-> -51]>>,
       <<[s |-> 0, m |-> <<12136, 31554, 23058, 151>>, e |-> -56],
         [s |-> 1, m |-> <<7197, 27359, 10249, 240>>, e |-> -51]>>,
       <<[s |-> 0, m |-> <<15124, 10082, 17644, 157>>, e |-> -56],
         [s |-> 1, m |-> <<25139, 18211, 27136, 236>>, e |-> -51]>>,
       <<[s |-> 0, m |-> <<5243, 3932, 27525, 163>>, e |-> -56],
         [s |-> 1, m |-> <<18147, 9702, 6776, 233>>, e |-> -51]>>,
       <<[s |-> 0, m |-> <<21845, 10922, 21845, 170>>, e |-> -56],
         [s |-> 1, m |-> <<24244, 9119, 14339, 229>>, e |-> -51]>>,
       <<[s |-> 0, m |-> <<8548, 12822, 2849, 178>>, e |-> -56],
         [s |-> 1, m |-> <<3754, 107, 16645, 225>>, e |-> -51]>>,
       <<[s |-> 0, m |-> <<5958, 26810, 5957, 186>>, e |-> -56],
         [s |-> 1, m |-> <<23874, 30732, 13225, 221>>, e |-> -51]>>,
       <<[s |-> 0, m |-> <<0, 0, 0, 192>>, e |-> -56],
         [s |-> 1, m |-> <<8524, 23648, 18428, 218>>, e |-> -51]>>,
       <<[s |-> 0, m |-> <<1560, 12483, 1560, 195>>, e |-> -56],
         [s |-> 1, m |-> <<25313, 8775, 3549, 217>>, e |-> -51]>>,
       <<[s |-> 0, m |-> <<6342, 6342, 6342, 198>>, e |-> -56],
         [s |-> 1, m |-> <<15337, 13841, 20675, 215>>, e |-> -51]>>,
       <<[s |-> 0, m |-> <<6554, 13107, 26214, 204>>, e |-> -56],
         [s |-> 1, m |-> <<9073, 4851, 19772, 212>>, e |-> -51]>>,
       <<[s |-> 0, m |-> <<14689, 9039, 28248, 211>>, e |-> -56],
         [s |-> 1, m |-> <<28162, 9226, 15505, 209>>, e |-> -51]>>,
       <<[s |-> 0, m |-> <<12072, 31043, 18970, 215>>, e |-> -56],
         [s |-> 1, m |-> <<9857, 22304, 28421, 207>>, e |-> -51]>>,
       <<[s |-> 0, m |-> <<14043, 14043, 14043, 219>>, e |-> -56],
         [s |-> 1, m |-> <<9593, 23304, 7638, 206>>, e |-> -51]>>,
       <<[s |-> 0, m |-> <<18204, 14563, 18204, 227>>, e |-> -56],
         [s |-> 1, m |-> <<15721, 18239, 28678, 202>>, e |-> -51]>>,
       <<[s |-> 0, m |-> <<22686, 15123, 10082, 236>>, e |-> -56],
         [s |-> 1, m |-> <<895, 9092, 12797, 199>>, e |-> -51]>>,
       <<[s |-> 0, m |-> <<7710, 15420, 30840, 240>>, e |-> -56],
         [s |-> 1, m |-> <<18585, 28588, 19582, 197>>, e |-> -51]>>,
       <<[s |-> 0, m |-> <<7864, 22282, 24903, 245>>, e |-> -56],
         [s |-> 1, m |-> <<26671, 582, 25205, 195>>, e |-> -51]>>,
       <<[s |-> 0, m |-> <<0, 0, 0, 128>>, e |-> -55],
         [s |-> 1, m |-> <<0, 0, 0, 192>>, e |-> -51]>>,
       <<[s |-> 0, m |-> <<4228, 4228, 4228, 132>>, e |-> -55],
         [s |-> 1, m |-> <<6813, 22961, 2246, 189>>, e |-> -51]>>,
       <<[s |-> 0, m |-> <<22795, 1424, 18521, 133>>, e |-> -55],
         [s |-> 1, m |-> <<12277, 23755, 2305, 188>>, e |-> -51]>>,
       <<[s |-> 0, m |-> <<4369, 8738, 17476, 136>>, e |-> -55],
         [s |-> 1, m |-> <<550, 13971, 1343, 186>>, e |-> -51]>>,
       <<[s |-> 0, m |-> <<20852, 11915, 20852, 139>>, e |-> -55],
         [s |-> 1, m |-> <<32398, 21612, 31654, 183>>, e |-> -51]>>,
       <<[s |-> 0, m |-> <<31638, 16948, 7909, 141>>, e |-> -55],
         [s |-> 1, m |-> <<19639, 18346, 29844, 182>>, e |-> -51]>>,
       <<[s |-> 0, m |-> <<9362, 9362, 9362, 146>>, e |-> -55],
         [s |-> 1, m |-> <<1069, 32424, 21977, 179>>, e |-> -51]>>,
       <<[s |-> 0, m |-> <<12136, 31554, 23058, 151>>, e |-> -55],
         [s |-> 1, m |-> <<7197, 27359, 10249, 176>>, e |-> -51]>>,
       <<[s |-> 0, m |-> <<13107, 26214, 19660, 153>>, e |-> -55],
         [s |-> 1, m |-> <<17597, 28499, 5432, 175>>, e |-> -51]>>,
       <<[s |-> 0, m |-> <<15124, 10082, 17644, 157>>, e |-> -55],
         [s |-> 1, m |-> <<25139, 18211, 27136, 172>>, e |-> -51]>>,
       <<[s |-> 0, m |-> <<0, 0, 0, 160>>, e |-> -55],
         [s |-> 1, m |-> <<23695, 27916, 12995, 171>>, e |-> -51]>>,
       <<[s |-> 0, m |-> <<17246, 6898, 22420, 161>>, e |-> -55],
         [s |-> 1, m |-> <<18381, 13184, 14082, 170>>, e |-> -51]>>,
       <<[s |-> 0, m |-> <<5243, 3932, 27525, 163>>, e |-> -55],
         [s |-> 1, m |-> <<18147, 9702, 6776, 169>>, e |-> -51]>>,
       <<[s |-> 0, m |-> <<5285, 5285, 5285, 165>>, e |-> -55],
         [s |-> 1, m |-> <<30507, 18109, 15242, 168>>, e |-> -51]>>,
       <<[s |-> 0, m |-> <<21845, 10922, 21845, 170>>, e |-> -55],
         [s |-> 1, m |-> <<24244, 9119, 14339, 165>>, e |-> -51]>>,
       <<[s |-> 0, m |-> <<6780, 29378, 18078, 176>>, e |-> -55],
         [s |-> 1, m |-> <<10565, 13495, 10072, 162>>, e |-> -51]>>,
       <<[s |-> 0, m |-> <<8548, 12822, 2849, 178>>, e |-> -55],
         [s |-> 1, m |-> <<3754, 107, 16645, 161>>, e |-> -51]>>,
       <<[s |-> 0, m |-> <<5783, 11565, 23130, 180>>, e |-> -55],
         [s |-> 1, m |-> <<27108, 19468, 5243, 160>>, e |-> -51]>>,
       <<[s |-> 0, m |-> <<28087, 28086, 28086, 182>>, e |-> -55],
         [s |-> 1, m |-> <<24763, 27572, 2205, 159>>, e |-> -51]>>,
       <<[s |-> 0, m |-> <<5958, 26810, 5957, 186>>, e |-> -55],
         [s |-> 1, m |-> <<23874, 30732, 13225, 157>>, e |-> -51]>>,
       <<[s |-> 0, m |-> <<31554, 23058, 20631, 189>>, e |-> -55],
         [s |-> 1, m |-> <<30892, 22507, 23245, 155>>, e |-> -51]>>,
       <<[s |-> 0, m |-> <<0, 0, 0, 192>>, e |-> -55],
         [s |-> 1, m |-> <<8524, 23648, 18428, 154>>, e |-> -51]>>,
       <<[s |-> 0, m |-> <<1560, 12483, 1560, 195>>, e |-> -55],
         [s |-> 1, m |-> <<25313, 8775, 3549, 153>>, e |-> -51]>>,
       <<[s |-> 0, m |-> <<2521, 12603, 30247, 196>>, e |-> -55],
         [s |-> 1, m |-> <<16065, 13360, 7364, 152>>, e |-> -51]>>,
       <<[s |-> 0, m |-> <<6342, 6342, 6342, 198>>, e |-> -55],
         [s |-> 1, m |-> <<15337, 13841, 20675, 151>>, e |-> -51]>>,
       <<[s |-> 0, m |-> <<6554, 13107, 26214, 204>>, e |-> -55],
         [s |-> 1, m |-> <<9073, 4851, 19772, 148>>, e |-> -51]>>,
       <<[s |-> 0, m |-> <<14689, 9039, 28248, 211>>, e |-> -55],
         [s |-> 1, m |-> <<28162, 9226, 15505, 145>>, e |-> -51]>>,
       <<[s |-> 0, m |-> <<10923, 21845, 10922, 213>>, e |-> -55],
         [s |-> 1, m |-> <<15171, 4268, 27335, 144>>, e |-> -51]>>,
       <<[s |-> 0, m |-> <<12072, 31043, 18970, 215>>, e |-> -55],
         [s |-> 1, m |-> <<9857, 22304, 28421, 143>>, e |-> -51]>>,
       <<[s |-> 0, m |-> <<14043, 14043, 14043, 219>>, e |-> -55],
         [s |-> 1, m |-> <<9593, 23304, 7638, 142>>, e |-> -51]>>,
       <<[s |-> 0, m |-> <<27069, 24219, 19945, 222>>, e |-> -55],
         [s |-> 1, m |-> <<27448, 28023, 29640, 140>>, e |-> -51]>>,
       <<[s |-> 0, m |-> <<0, 0, 0, 224>>, e |-> -55],
         [s |-> 1, m |-> <<31699, 343, 10790, 140>>, e |-> -51]>>,
       <<[s |-> 0, m |-> <<18204, 14563, 18204, 227>>, e |-> -55],
         [s |-> 1, m |-> <<15721, 18239, 28678, 138>>, e |-> -51]>>,
       <<[s |-> 0, m |-> <<7399, 7399, 7399, 231>>, e |-> -55],
         [s |-> 1, m |-> <<5744, 23305, 13036, 137>>, e |-> -51]>>,
       <<[s |-> 0, m |-> <<23831, 8936, 23831, 232>>, e |-> -55],
         [s |-> 1, m |-> <<14801, 25881, 26221, 136>>, e |-> -51]>>,
       <<[s |-> 0, m |-> <<22686, 15123, 10082, 236>>, e |-> -55],
         [s |-> 1, m |-> <<895, 9092, 12797, 135>>, e |-> -51]>>,
       <<[s |-> 0, m |-> <<24030, 15291, 30583, 238>>, e |-> -55],
         [s |-> 1, m |-> <<32249, 14314, 12133, 134>>, e |-> -51]>>,
       <<[s |-> 0, m |-> <<7710, 15420, 30840, 240>>, e |-> -55],
         [s |-> 1, m |-> <<18585, 28588, 19582, 133>>, e |-> -51]>>,
       <<[s |-> 0, m |-> <<26526, 15603, 26526, 243>>, e |-> -55],
         [s |-> 1, m |-> <<16240, 3924, 16545, 132>>, e |-> -51]>>,
       <<[s |-> 0, m |-> <<7864, 22282, 24903, 245>>, e |-> -55],
         [s |-> 1, m |-> <<26671, 582, 25205, 131>>, e |-> -51]>>,
       <<[s |-> 0, m |-> <<22599, 21468, 5649, 247>>, e |-> -55],
         [s |-> 1, m |-> <<18570, 18690, 7866, 131>>, e |-> -51]>>,
       <<[s |-> 0, m |-> <<0, 0, 0, 128>>, e |-> -54],
         [s |-> 1, m |-> <<0, 0, 0, 128>>, e |-> -51]>>,
       <<[s |-> 0, m |-> <<4228, 4228, 4228, 132>>, e |-> -54],
         [s |-> 1, m |-> <<13626, 13154, 4493, 250>>, e |-> -52]>>,
       <<[s |-> 0, m |-> <<2427, 19418, 24272, 132>>, e |-> -54],
         [s |-> 1, m |-> <<12256, 22638, 9311, 249>>, e |-> -52]>>,
       <<[s |-> 0, m |-> <<22795, 1424, 18521, 133>>, e |-> -54],
         [s |-> 1, m |-> <<24555, 14742, 4611, 248>>, e |-> -52]>>,
       <<[s |-> 0, m |-> <<3449, 27594, 24144, 134>>, e |-> -54],
         [s |-> 1, m |-> <<1567, 2138, 17299, 246>>, e |-> -52]>>,
       <<[s |-> 0, m |-> <<4369, 8738, 17476, 136>>, e |-> -54],
         [s |-> 1, m |-> <<1099, 27942, 2686, 244>>, e |-> -52]>>,
       <<[s |-> 0, m |-> <<5041, 25206, 27726, 137>>, e |-> -54],
         [s |-> 1, m |-> <<15373, 4343, 10317, 242>>, e |-> -52]>>,
       <<[s |-> 0, m |-> <<20852, 11915, 20852, 139>>, e |-> -54],
         [s |-> 1, m |-> <<32028, 10457, 30541, 239>>, e |-> -52]>>,
       <<[s |-> 0, m |-> <<31638, 16948, 7909, 141>>, e |-> -54],
         [s |-> 1, m |-> <<6509, 3925, 26921, 237>>, e |-> -52]>>,
       <<[s |-> 0, m |-> <<7282, 25486, 7281, 142>>, e |-> -54],
         [s |-> 1, m |-> <<13294, 26776, 17812, 236>>, e |-> -52]>>,
       <<[s |-> 0, m |-> <<20972, 15728, 11796, 143>>, e |-> -54],
         [s |-> 1, m |-> <<1387, 20093, 2364, 235>>, e |-> -52]>>,
       <<[s |-> 0, m |-> <<0, 0, 0, 144>>, e |-> -54],
         [s |-> 1, m |-> <<1327, 29057, 8178, 234>>, e |-> -52]>>,
       <<[s |-> 0, m |-> <<9362, 9362, 9362, 146>>, e |-> -54],
         [s |-> 1, m |-> <<2138, 32080, 11187, 231>>, e |-> -52]>>,
       <<[s |-> 0, m |-> <<21141, 21140, 21140, 148>>, e |-> -54],
         [s |-> 1, m |-> <<14952, 9443, 12672, 228>>, e |-> -52]>>,
       <<[s |-> 0, m |-> <<10923, 21845, 10922, 149>>, e |-> -54],
         [s |-> 1, m |-> <<13582, 18927, 17490, 227>>, e |-> -52]>>,
       <<[s |-> 0, m |-> <<21203, 9637, 19275, 150>>, e |-> -54],
         [s |-> 1, m |-> <<19022, 14706, 32389, 225>>, e |-> -52]>>,
       <<[s |-> 0, m |-> <<12136, 31554, 23058, 151>>, e |-> -54],
         [s |-> 1, m |-> <<14394, 21950, 20499, 224>>, e |-> -52]>>,
       <<[s |-> 0, m |-> <<13107, 26214, 19660, 153>>, e |-> -54],
         [s |-> 1, m |-> <<2427, 24231, 10865, 222>>, e |-> -52]>>,
       <<[s |-> 0, m |-> <<15672, 7123, 27069, 155>>, e |-> -54],
         [s |-> 1, m |-> <<5369, 902, 22102, 219>>, e |-> -52]>>,
       <<[s |-> 0, m |-> <<15124, 10082, 17644, 157>>, e |-> -54],
         [s |-> 1, m |-> <<17510, 3655, 21505, 217>>, e |-> -52]>>,
       <<[s |-> 0, m |-> <<19209, 6779, 29378, 158>>, e |-> -54],
         [s |-> 1, m |-> <<7836, 214, 2332, 216>>, e |-> -52]>>,
       <<[s |-> 0, m |-> <<0, 0, 0, 160>>, e |-> -54],
         [s |-> 1, m |-> <<14621, 23065, 25991, 214>>, e |-> -52]>>,
       <<[s |-> 0, m |-> <<17246, 6898, 22420, 161>>, e |-> -54],
         [s |-> 1, m |-> <<3993, 26369, 28164, 212>>, e |-> -52]>>,
       <<[s |-> 0, m |-> <<29789, 2978, 29789, 162>>, e |-> -54],
         [s |-> 1, m |-> <<12842, 29385, 15263, 211>>, e |-> -52]>>,
       <<[s |-> 0, m |-> <<5243, 3932, 27525, 163>>, e |-> -54],
         [s |-> 1, m |-> <<3525, 19405, 13552, 210>>, e |-> -52]>>,
       <<[s |-> 0, m |-> <<18725, 18724, 18724, 164>>, e |-> -54],
         [s |-> 1, m |-> <<3464, 28369, 19366, 209>>, e |-> -52]>>,
       <<[s |-> 0, m |-> <<5285, 5285, 5285, 165>>, e |-> -54],
         [s |-> 1, m |-> <<28247, 3451, 30485, 208>>, e |-> -52]>>,
       <<[s |-> 0, m |-> <<21845, 10922, 21845, 170>>, e |-> -54],
         [s |-> 1, m |-> <<15721, 18239, 28678, 202>>, e |-> -52]>>,
       <<[s |-> 0, m |-> <<0, 0, 0, 176>>, e |-> -54],
         [s |-> 1, m |-> <<17788, 4070, 6316, 197>>, e |-> -52]>>,
       <<[s |-> 0, m |-> <<6780, 29378, 18078, 176>>, e |-> -54],
         [s |-> 1, m |-> <<21130, 26990, 20144, 196>>, e |-> -52]>>,
       <<[s |-> 0, m |-> <<25206, 27726, 7561, 177>>, e |-> -54],
         [s |-> 1, m |-> <<18837, 32712, 29683, 195>>, e |-> -52]>>,
       <<[s |-> 0, m |-> <<8548, 12822, 2849, 178>>, e |-> -54],
         [s |-> 1, m |-> <<7507, 214, 522, 195>>, e |-> -52]>>,
       <<[s |-> 0, m |-> <<26214, 19660, 6553, 179>>, e |-> -54],
         [s |-> 1, m |-> <<16009, 10390, 28356, 193>>, e |-> -52]>>,
       <<[s |-> 0, m |-> <<5783, 11565, 23130, 180>>, e |-> -54],
         [s |-> 1, m |-> <<21449, 6169, 10487, 192>>, e |-> -52]>>,
       <<[s |-> 0, m |-> <<22198, 22197, 22197, 181>>, e |-> -54],
         [s |-> 1, m |-> <<31413, 17224, 10809, 191>>, e |-> -52]>>,
       <<[s |-> 0, m |-> <<28087, 28086, 28086, 182>>, e |-> -54],
         [s |-> 1, m |-> <<16759, 22377, 4411, 190>>, e |-> -52]>>,
       <<[s |-> 0, m |-> <<22282, 24903, 10485, 184>>, e |-> -54],
         [s |-> 1, m |-> <<4853, 15694, 21731, 188>>, e |-> -52]>>,
       <<[s |-> 0, m |-> <<5958, 26810, 5957, 186>>, e |-> -54],
         [s |-> 1, m |-> <<14980, 28697, 26451, 186>>, e |-> -52]>>,
       <<[s |-> 0, m |-> <<30583, 28398, 24029, 187>>, e |-> -54],
         [s |-> 1, m |-> <<18888, 32012, 9002, 185>>, e |-> -52]>>,
       <<[s |-> 0, m |-> <<31043, 18970, 20695, 188>>, e |-> -54],
         [s |-> 1, m |-> <<17576, 12528, 12887, 184>>, e |-> -52]>>,
       <<[s |-> 0, m |-> <<31554, 23058, 20631, 189>>, e |-> -54],
         [s |-> 1, m |-> <<29015, 12247, 13723, 183>>, e |-> -52]>>,
       <<[s |-> 0, m |-> <<0, 0, 0, 192>>, e |-> -54],
         [s |-> 1, m |-> <<17048, 14528, 4089, 181>>, e |-> -52]>>,
       <<[s |-> 0, m |-> <<27118, 19208, 6779, 194>>, e |-> -54],
         [s |-> 1, m |-> <<24298, 7995, 469, 179>>, e |-> -52]>>,
       <<[s |-> 0, m |-> <<1560, 12483, 1560, 195>>, e |-> -54],
         [s |-> 1, m |-> <<17859, 17551, 7098, 178>>, e |-> -52]>>,
       <<[s |-> 0, m |-> <<2521, 12603, 30247, 196>>, e |-> -54],
         [s |-> 1, m |-> <<32131, 26720, 14728, 176>>, e |-> -52]>>,
       <<[s |-> 0, m |-> <<6342, 6342, 6342, 198>>, e |-> -54],
         [s |-> 1, m |-> <<30673, 27682, 8582, 175>>, e |-> -52]>>,
       <<[s |-> 0, m |-> <<3641, 29127, 3640, 199>>, e |-> -54],
         [s |-> 1, m |-> <<29303, 4398, 13401, 174>>, e |-> -52]>>,
       <<[s |-> 0, m |-> <<1425, 18521, 11397, 200>>, e |-> -54],
         [s |-> 1, m |-> <<8834, 29271, 8700, 173>>, e |-> -52]>>,
       <<[s |-> 0, m |-> <<4681, 4681, 4681, 201>>, e |-> -54],
         [s |-> 1, m |-> <<19926, 3382, 17504, 172>>, e |-> -52]>>,
       <<[s |-> 0, m |-> <<6554, 13107, 26214, 204>>, e |-> -54],
         [s |-> 1, m |-> <<18146, 9702, 6776, 169>>, e |-> -52]>>,
       <<[s |-> 0, m |-> <<0, 0, 0, 208>>, e |-> -54],
         [s |-> 1, m |-> <<15258, 29112, 11262, 166>>, e |-> -52]>>,
       <<[s |-> 0, m |-> <<8495, 2427, 19418, 208>>, e |-> -54],
         [s |-> 1, m |-> <<32182, 26020, 26815, 165>>, e |-> -52]>>,
       <<[s |-> 0, m |-> <<14895, 17873, 14894, 209>>, e |-> -54],
         [s |-> 1, m |-> <<16306, 24986, 1862, 165>>, e |-> -52]>>,
       <<[s |-> 0, m |-> <<23130, 13492, 26985, 210>>, e |-> -54],
         [s |-> 1, m |-> <<2264, 25097, 27977, 163>>, e |-> -52]>>,
       <<[s |-> 0, m |-> <<14689, 9039, 28248, 211>>, e |-> -54],
         [s |-> 1, m |-> <<23557, 18453, 31010, 162>>, e |-> -52]>>,
       <<[s |-> 0, m |-> <<10923, 21845, 10922, 213>>, e |-> -54],
         [s |-> 1, m |-> <<30341, 8536, 21902, 161>>, e |-> -52]>>,
       <<[s |-> 0, m |-> <<23255, 23254, 23254, 214>>, e |-> -54],
         [s |-> 1, m |-> <<28883, 9498, 15756, 160>>, e |-> -52]>>,
       <<[s |-> 0, m |-> <<12072, 31043, 18970, 215>>, e |-> -54],
         [s |-> 1, m |-> <<19714, 11840, 24075, 159>>, e |-> -52]>>,
       <<[s |-> 0, m |-> <<12603, 30247, 20164, 216>>, e |-> -54],
         [s |-> 1, m |-> <<2530, 7726, 27821, 158>>, e |-> -52]>>,
       <<[s |-> 0, m |-> <<14043, 14043, 14043, 219>>, e |-> -54],
         [s |-> 1, m |-> <<19186, 13840, 15277, 156>>, e |-> -52]>>,
       <<[s |-> 0, m |-> <<15292, 30583, 28398, 221>>, e |-> -54],
         [s |-> 1, m |-> <<16357, 24286, 13949, 154>>, e |-> -52]>>,
       <<[s |-> 0, m |-> <<27069, 24219, 19945, 222>>, e |-> -54],
         [s |-> 1, m |-> <<22129, 23279, 26513, 153>>, e |-> -52]>>,
       <<[s |-> 0, m |-> <<0, 0, 0, 224>>, e |-> -54],
         [s |-> 1, m |-> <<30630, 687, 21580, 152>>, e |-> -52]>>,
       <<[s |-> 0, m |-> <<23593, 1310, 9175, 225>>, e |-> -54],
         [s |-> 1, m |-> <<21314, 23475, 19868, 151>>, e |-> -52]>>,
       <<[s |-> 0, m |-> <<18204, 14563, 18204, 227>>, e |-> -54],
         [s |-> 1, m |-> <<31441, 3710, 24589, 149>>, e |-> -52]>>,
       <<[s |-> 0, m |-> <<2260, 31638, 16948, 229>>, e |-> -54],
         [s |-> 1, m |-> <<21767, 269, 5416, 148>>, e |-> -52]>>,
       <<[s |-> 0, m |-> <<19661, 6553, 13107, 230>>, e |-> -54],
         [s |-> 1, m |-> <<19474, 5991, 14955, 147>>, e |-> -52]>>,
       <<[s |-> 0, m |-> <<7399, 7399, 7399, 231>>, e |-> -54],
         [s |-> 1, m |-> <<11488, 13842, 26073, 146>>, e |-> -52]>>,
       <<[s |-> 0, m |-> <<23831, 8936, 23831, 232>>, e |-> -54],
         [s |-> 1, m |-> <<29601, 18994, 19675, 145>>, e |-> -52]>>,
       <<[s |-> 0, m |-> <<21845, 10922, 21845, 234>>, e |-> -54],
         [s |-> 1, m |-> <<741, 22310, 2226, 144>>, e |-> -52]>>,
       <<[s |-> 0, m |-> <<22686, 15123, 10082, 236>>, e |-> -54],
         [s |-> 1, m |-> <<1789, 18184, 25594, 142>>, e |-> -52]>>,
       <<[s |-> 0, m |-> <<23406, 23405, 23405, 237>>, e |-> -54],
         [s |-> 1, m |-> <<17396, 28424, 22450, 141>>, e |-> -52]>>,
       <<[s |-> 0, m |-> <<24030, 15291, 30583, 238>>, e |-> -54],
         [s |-> 1, m |-> <<31729, 28629, 24266, 140>>, e |-> -52]>>,
       <<[s |-> 0, m |-> <<0, 0, 0, 240>>, e |-> -54],
         [s |-> 1, m |-> <<31669, 4825, 30081, 139>>, e |-> -52]>>,
       <<[s |-> 0, m |-> <<7710, 15420, 30840, 240>>, e |-> -54],
         [s |-> 1, m |-> <<4401, 24409, 6397, 139>>, e |-> -52]>>,
       <<[s |-> 0, m |-> <<25869, 10347, 17246, 242>>, e |-> -54],
         [s |-> 1, m |-> <<21041, 8129, 32254, 137>>, e |-> -52]>>,
       <<[s |-> 0, m |-> <<26526, 15603, 26526, 243>>, e |-> -54],
         [s |-> 1, m |-> <<32480, 7848, 322, 137>>, e |-> -52]>>,
       <<[s |-> 0, m |-> <<19946, 29918, 28493, 244>>, e |-> -54],
         [s |-> 1, m |-> <<25295, 4284, 6838, 136>>, e |-> -52]>>,
       <<[s |-> 0, m |-> <<7864, 22282, 24903, 245>>, e |-> -54],
         [s |-> 1, m |-> <<20573, 1165, 17642, 135>>, e |-> -52]>>,
       <<[s |-> 0, m |-> <<27913, 26699, 16990, 246>>, e |-> -54],
         [s |-> 1, m |-> <<29652, 18294, 31762, 134>>, e |-> -52]>>,
       <<[s |-> 0, m |-> <<22599, 21468, 5649, 247>>, e |-> -54],
         [s |-> 1, m |-> <<4371, 4613, 15733, 134>>, e |-> -52]>>,
       <<[s |-> 0, m |-> <<24312, 24311, 24311, 247>>, e |-> -54],
         [s |-> 1, m |-> <<12526, 17980, 1806, 134>>, e |-> -52]>>,
       <<[s |-> 0, m |-> <<0, 0, 0, 128>>, e |-> -53],
         [s |-> 1, m |-> <<0, 0, 0, 128>>, e |-> -52]>>,
       <<[s |-> 0, m |-> <<4228, 4228, 4228, 132>>, e |-> -53],
         [s |-> 1, m |-> <<27251, 26308, 8986, 244>>, e |-> -53]>>,
       <<[s |-> 0, m |-> <<21469, 5649, 13559, 132>>, e |-> -53],
         [s |-> 1, m |-> <<10819, 17502, 15700, 243>>, e |-> -53]>>,
       <<[s |-> 0, m |-> <<2427, 19418, 24272, 132>>, e |-> -53],
         [s |-> 1, m |-> <<24512, 12508, 18623, 242>>, e |-> -53]>>,
       <<[s |-> 0, m |-> <<28836, 5242, 3932, 133>>, e |-> -53],
         [s |-> 1, m |-> <<4799, 31499, 16862, 241>>, e |-> -53]>>,
       <<[s |-> 0, m |-> <<22795, 1424, 18521, 133>>, e |-> -53],
         [s |-> 1, m |-> <<16342, 29485, 9222, 240>>, e |-> -53]>>,
       <<[s |-> 0, m |-> <<3121, 24966, 3120, 134>>, e |-> -53],
         [s |-> 1, m |-> <<5756, 10476, 26829, 238>>, e |-> -53]>>,
       <<[s |-> 0, m |-> <<3449, 27594, 24144, 134>>, e |-> -53],
         [s |-> 1, m |-> <<3134, 4276, 1830, 237>>, e |-> -53]>>,
       <<[s |-> 0, m |-> <<28913, 25057, 17347, 135>>, e |-> -53],
         [s |-> 1, m |-> <<11457, 8628, 29153, 234>>, e |-> -53]>>,
       <<[s |-> 0, m |-> <<0, 0, 0, 136>>, e |-> -53],
         [s |-> 1, m |-> <<23965, 16717, 19972, 233>>, e |-> -53]>>,
       <<[s |-> 0, m |-> <<4369, 8738, 17476, 136>>, e |-> -53],
         [s |-> 1, m |-> <<2199, 23116, 5373, 232>>, e |-> -53]>>,
       <<[s |-> 0, m |-> <<4681, 4681, 4681, 137>>, e |-> -53],
         [s |-> 1, m |-> <<2077, 8276, 17002, 230>>, e |-> -53]>>,
       <<[s |-> 0, m |-> <<5041, 25206, 27726, 137>>, e |-> -53],
         [s |-> 1, m |-> <<30745, 8686, 20634, 228>>, e |-> -53]>>,
       <<[s |-> 0, m |-> <<21845, 10922, 21845, 138>>, e |-> -53],
         [s |-> 1, m |-> <<29190, 29167, 14346, 226>>, e |-> -53]>>,
       <<[s |-> 0, m |-> <<20852, 11915, 20852, 139>>, e |-> -53],
         [s |-> 1, m |-> <<31288, 20915, 28314, 223>>, e |-> -53]>>,
       <<[s |-> 0, m |-> <<12684, 12684, 12684, 140>>, e |-> -53],
         [s |-> 1, m |-> <<18449, 10258, 28959, 221>>, e |-> -53]>>,
       <<[s |-> 0, m |-> <<6554, 13107, 26214, 140>>, e |-> -53],
         [s |-> 1, m |-> <<6333, 27546, 26184, 220>>, e |-> -53]>>,
       <<[s |-> 0, m |-> <<31638, 16948, 7909, 141>>, e |-> -53],
         [s |-> 1, m |-> <<13018, 7850, 21074, 219>>, e |-> -53]>>,
       <<[s |-> 0, m |-> <<7282, 25486, 7281, 142>>, e |-> -53],
         [s |-> 1, m |-> <<26588, 20784, 2857, 217>>, e |-> -53]>>,
       <<[s |-> 0, m |-> <<20972, 15728, 11796, 143>>, e |-> -53],
         [s |-> 1, m |-> <<2774, 7418, 4729, 214>>, e |-> -53]>>,
       <<[s |-> 0, m |-> <<0, 0, 0, 144>>, e |-> -53],
         [s |-> 1, m |-> <<2654, 25346, 16357, 212>>, e |-> -53]>>,
       <<[s |-> 0, m |-> <<2849, 4274, 22795, 144>>, e |-> -53],
         [s |-> 1, m |-> <<12764, 25885, 23569, 210>>, e |-> -53]>>,
       <<[s |-> 0, m |-> <<8738, 17476, 2184, 145>>, e |-> -53],
         [s |-> 1, m |-> <<26164, 7065, 25346, 209>>, e |-> -53]>>,
       <<[s |-> 0, m |-> <<9362, 9362, 9362, 146>>, e |-> -53],
         [s |-> 1, m |-> <<4276, 31392, 22375, 206>>, e |-> -53]>>,
       <<[s |-> 0, m |-> <<10082, 17644, 22685, 147>>, e |-> -53],
         [s |-> 1, m |-> <<55, 16963, 4868, 203>>, e |-> -53]>>,
       <<[s |-> 0, m |-> <<10348, 17246, 6898, 148>>, e |-> -53],
         [s |-> 1, m |-> <<9467, 31822, 28014, 201>>, e |-> -53]>>,
       <<[s |-> 0, m |-> <<21141, 21140, 21140, 148>>, e |-> -53],
         [s |-> 1, m |-> <<29904, 18886, 25344, 200>>, e |-> -53]>>,
       <<[s |-> 0, m |-> <<10923, 21845, 10922, 149>>, e |-> -53],
         [s |-> 1, m |-> <<27165, 5086, 2213, 199>>, e |-> -53]>>,
       <<[s |-> 0, m |-> <<9039, 28248, 2259, 150>>, e |-> -53],
         [s |-> 1, m |-> <<4217, 24568, 8278, 197>>, e |-> -53]>>,
       <<[s |-> 0, m |-> <<21203, 9637, 19275, 150>>, e |-> -53],
         [s |-> 1, m |-> <<5277, 29413, 32010, 195>>, e |-> -53]>>,
       <<[s |-> 0, m |-> <<8937, 23831, 8936, 151>>, e |-> -53],
         [s |-> 1, m |-> <<27707, 17315, 9893, 194>>, e |-> -53]>>,
       <<[s |-> 0, m |-> <<12136, 31554, 23058, 151>>, e |-> -53],
         [s |-> 1, m |-> <<28788, 11132, 8231, 193>>, e |-> -53]>>,
       <<[s |-> 0, m |-> <<0, 0, 0, 152>>, e |-> -53],
         [s |-> 1, m |-> <<26109, 9086, 17385, 192>>, e |-> -53]>>,
       <<[s |-> 0, m |-> <<13107, 26214, 19660, 153>>, e |-> -53],
         [s |-> 1, m |-> <<4853, 15694, 21731, 188>>, e |-> -53]>>,
       <<[s |-> 0, m |-> <<14043, 14043, 14043, 155>>, e |-> -53],
         [s |-> 1, m |-> <<28242, 15341, 9580, 184>>, e |-> -53]>>,
       <<[s |-> 0, m |-> <<15672, 7123, 27069, 155>>, e |-> -53],
         [s |-> 1, m |-> <<10738, 1804, 11436, 183>>, e |-> -53]>>,
       <<[s |-> 0, m |-> <<14564, 18204, 14563, 156>>, e |-> -53],
         [s |-> 1, m |-> <<153, 15563, 29042, 181>>, e |-> -53]>>,
       <<[s |-> 0, m |-> <<29597, 29596, 29596, 156>>, e |-> -53],
         [s |-> 1, m |-> <<20592, 2627, 26372, 180>>, e |-> -53]>>,
       <<[s |-> 0, m |-> <<15124, 10082, 17644, 157>>, e |-> -53],
         [s |-> 1, m |-> <<2251, 7311, 10242, 179>>, e |-> -53]>>,
       <<[s |-> 0, m |-> <<15604, 26526, 15603, 158>>, e |-> -53],
         [s |-> 1, m |-> <<696, 27792, 3954, 177>>, e |-> -53]>>,
       <<[s |-> 0, m |-> <<19209, 6779, 29378, 158>>, e |-> -53],
         [s |-> 1, m |-> <<15672, 428, 4664, 176>>, e |-> -53]>>,
       <<[s |-> 0, m |-> <<0, 0, 0, 160>>, e |-> -53],
         [s |-> 1, m |-> <<29243, 13362, 19215, 173>>, e |-> -53]>>,
       <<[s |-> 0, m |-> <<16991, 4854, 6068, 161>>, e |-> -53],
         [s |-> 1, m |-> <<19984, 27850, 28203, 170>>, e |-> -53]>>,
       <<[s |-> 0, m |-> <<17246, 6898, 22420, 161>>, e |-> -53],
         [s |-> 1, m |-> <<7986, 19970, 23561, 169>>, e |-> -53]>>,
       <<[s |-> 0, m |-> <<17476, 2184, 4369, 162>>, e |-> -53],
         [s |-> 1, m |-> <<28309, 32202, 22758, 168>>, e |-> -53]>>,
       <<[s |-> 0, m |-> <<29789, 2978, 29789, 162>>, e |-> -53],
         [s |-> 1, m |-> <<25684, 26002, 30527, 166>>, e |-> -53]>>,
       <<[s |-> 0, m |-> <<5243, 3932, 27525, 163>>, e |-> -53],
         [s |-> 1, m |-> <<7051, 6042, 27105, 164>>, e |-> -53]>>,
       <<[s |-> 0, m |-> <<18725, 18724, 18724, 164>>, e |-> -53],
         [s |-> 1, m |-> <<6929, 23970, 5965, 163>>, e |-> -53]>>,
       <<[s |-> 0, m |-> <<5285, 5285, 5285, 165>>, e |-> -53],
         [s |-> 1, m |-> <<23726, 6903, 28202, 161>>, e |-> -53]>>,
       <<[s |-> 0, m |-> <<13493, 26985, 21202, 165>>, e |-> -53],
         [s |-> 1, m |-> <<11611, 24191, 25427, 160>>, e |-> -53]>>,
       <<[s |-> 0, m |-> <<19661, 6553, 13107, 166>>, e |-> -53],
         [s |-> 1, m |-> <<1273, 12094, 3310, 159>>, e |-> -53]>>,
       <<[s |-> 0, m |-> <<28494, 9972, 31343, 166>>, e |-> -53],
         [s |-> 1, m |-> <<12816, 10080, 28438, 157>>, e |-> -53]>>,
       <<[s |-> 0, m |-> <<20165, 2520, 12603, 167>>, e |-> -53],
         [s |-> 1, m |-> <<26217, 24028, 30214, 156>>, e |-> -53]>>,
       <<[s |-> 0, m |-> <<29378, 18078, 23728, 167>>, e |-> -53],
         [s |-> 1, m |-> <<6360, 16937, 5691, 156>>, e |-> -53]>>,
       <<[s |-> 0, m |-> <<0, 0, 0, 168>>, e |-> -53],
         [s |-> 1, m |-> <<29820, 30432, 18570, 155>>, e |-> -53]>>,
       <<[s |-> 0, m |-> <<21845, 10922, 21845, 170>>, e |-> -53],
         [s |-> 1, m |-> <<31442, 3710, 24589, 149>>, e |-> -53]>>,
       <<[s |-> 0, m |-> <<13741, 13741, 13741, 173>>, e |-> -53],
         [s |-> 1, m |-> <<24303, 23973, 27557, 143>>, e |-> -53]>>,
       <<[s |-> 0, m |-> <<23406, 23405, 23405, 173>>, e |-> -53],
         [s |-> 1, m |-> <<30384, 7710, 6993, 143>>, e |-> -53]>>,
       <<[s |-> 0, m |-> <<30147, 14417, 2621, 174>>, e |-> -53],
         [s |-> 1, m |-> <<31015, 22759, 14309, 142>>, e |-> -53]>>,
       <<[s |-> 0, m |-> <<17873, 14894, 17873, 174>>, e |-> -53],
         [s |-> 1, m |-> <<27762, 1510, 14762, 141>>, e |-> -53]>>,
       <<[s |-> 0, m |-> <<24145, 29318, 5173, 175>>, e |-> -53],
         [s |-> 1, m |-> <<4406, 16370, 5140, 140>>, e |-> -53]>>,
       <<[s |-> 0, m |-> <<0, 0, 0, 176>>, e |-> -53],
         [s |-> 1, m |-> <<2809, 8141, 12632, 138>>, e |-> -53]>>,
       <<[s |-> 0, m |-> <<6780, 29378, 18078, 176>>, e |-> -53],
         [s |-> 1, m |-> <<9492, 21213, 7521, 137>>, e |-> -53]>>,
       <<[s |-> 0, m |-> <<25206, 27726, 7561, 177>>, e |-> -53],
         [s |-> 1, m |-> <<4906, 32657, 26599, 135>>, e |-> -53]>>,
       <<[s |-> 0, m |-> <<8548, 12822, 2849, 178>>, e |-> -53],
         [s |-> 1, m |-> <<15015, 428, 1044, 134>>, e |-> -53]>>,
       <<[s |-> 0, m |-> <<26214, 19660, 6553, 179>>, e |-> -53],
         [s |-> 1, m |-> <<32019, 20780, 23944, 131>>, e |-> -53]>>,
       <<[s |-> 0, m |-> <<26700, 16990, 4854, 180>>, e |-> -53],
         [s |-> 1, m |-> <<22128, 20219, 25616, 129>>, e |-> -53]>>,
       <<[s |-> 0, m |-> <<5783, 11565, 23130, 180>>, e |-> -53],
         [s |-> 1, m |-> <<10129, 12339, 20974, 128>>, e |-> -53]>>,
       <<[s |-> 0, m |-> <<10923, 21845, 10922, 181>>, e |-> -53],
         [s |-> 1, m |-> <<12507, 8089, 23587, 254>>, e |-> -54]>>,
       <<[s |-> 0, m |-> <<22198, 22197, 22197, 181>>, e |-> -53],
         [s |-> 1, m |-> <<27349, 3363, 10470, 253>>, e |-> -54]>>,
       <<[s |-> 0, m |-> <<28087, 28086, 28086, 182>>, e |-> -53],
         [s |-> 1, m |-> <<1499, 23974, 17646, 248>>, e |-> -54]>>,
       <<[s |-> 0, m |-> <<0, 0, 0, 184>>, e |-> -53],
         [s |-> 1, m |-> <<2739, 31911, 30679, 243>>, e |-> -54]>>,
       <<[s |-> 0, m |-> <<22282, 24903, 10485, 184>>, e |-> -53],
         [s |-> 1, m |-> <<19411, 30008, 21389, 242>>, e |-> -54]>>,
       <<[s |-> 0, m |-> <<29127, 3640, 29127, 184>>, e |-> -53],
         [s |-> 1, m |-> <<22957, 221, 12336, 240>>, e |-> -54]>>,
       <<[s |-> 0, m |-> <<16949, 7909, 12429, 185>>, e |-> -53],
         [s |-> 1, m |-> <<20140, 11030, 13754, 238>>, e |-> -54]>>,
       <<[s |-> 0, m |-> <<5958, 26810, 5957, 186>>, e |-> -53],
         [s |-> 1, m |-> <<27150, 16485, 7503, 235>>, e |-> -54]>>,
       <<[s |-> 0, m |-> <<30247, 20164, 2520, 187>>, e |-> -53],
         [s |-> 1, m |-> <<23956, 27, 22487, 231>>, e |-> -54]>>,
       <<[s |-> 0, m |-> <<30583, 28398, 24029, 187>>, e |-> -53],
         [s |-> 1, m |-> <<10016, 29746, 3243, 229>>, e |-> -54]>>,
       <<[s |-> 0, m |-> <<31043, 18970, 20695, 188>>, e |-> -53],
         [s |-> 1, m |-> <<4768, 17346, 18781, 225>>, e |-> -54]>>,
       <<[s |-> 0, m |-> <<21370, 15671, 7123, 189>>, e |-> -53],
         [s |-> 1, m |-> <<12425, 1524, 9265, 223>>, e |-> -54]>>,
       <<[s |-> 0, m |-> <<31554, 23058, 20631, 189>>, e |-> -53],
         [s |-> 1, m |-> <<17756, 16223, 22125, 221>>, e |-> -54]>>,
       <<[s |-> 0, m |-> <<30654, 30653, 30653, 189>>, e |-> -53],
         [s |-> 1, m |-> <<24472, 18992, 15885, 220>>, e |-> -54]>>,
       <<[s |-> 0, m |-> <<0, 0, 0, 192>>, e |-> -53],
         [s |-> 1, m |-> <<2654, 25346, 16357, 212>>, e |-> -54]>>,
       <<[s |-> 0, m |-> <<27118, 19208, 6779, 194>>, e |-> -53],
         [s |-> 1, m |-> <<31655, 31982, 1876, 204>>, e |-> -54]>>,
       <<[s |-> 0, m |-> <<14418, 2621, 18350, 194>>, e |-> -53],
         [s |-> 1, m |-> <<785, 30258, 23444, 202>>, e |-> -54]>>,
       <<[s |-> 0, m |-> <<1560, 12483, 1560, 195>>, e |-> -53],
         [s |-> 1, m |-> <<5898, 4670, 28394, 200>>, e |-> -54]>>,
       <<[s |-> 0, m |-> <<30840, 28912, 25057, 195>>, e |-> -53],
         [s |-> 1, m |-> <<13104, 17478, 5106, 198>>, e |-> -54]>>,
       <<[s |-> 0, m |-> <<2185, 4369, 8738, 196>>, e |-> -53],
         [s |-> 1, m |-> <<7134, 12607, 8659, 196>>, e |-> -54]>>,
       <<[s |-> 0, m |-> <<2521, 12603, 30247, 196>>, e |-> -53],
         [s |-> 1, m |-> <<30219, 8579, 26147, 193>>, e |-> -54]>>,
       <<[s |-> 0, m |-> <<26810, 5957, 26810, 197>>, e |-> -53],
         [s |-> 1, m |-> <<9546, 17153, 14680, 190>>, e |-> -54]>>,
       <<[s |-> 0, m |-> <<6342, 6342, 6342, 198>>, e |-> -53],
         [s |-> 1, m |-> <<24388, 12427, 1563, 189>>, e |-> -54]>>,
       <<[s |-> 0, m |-> <<3641, 29127, 3640, 199>>, e |-> -53],
         [s |-> 1, m |-> <<18909, 17595, 20836, 185>>, e |-> -54]>>,
       <<[s |-> 0, m |-> <<0, 0, 0, 200>>, e |-> -53],
         [s |-> 1, m |-> <<18666, 20683, 11325, 182>>, e |-> -54]>>,
       <<[s |-> 0, m |-> <<1425, 18521, 11397, 200>>, e |-> -53],
         [s |-> 1, m |-> <<2568, 18781, 2035, 181>>, e |-> -54]>>,
       <<[s |-> 0, m |-> <<4681, 4681, 4681, 201>>, e |-> -53],
         [s |-> 1, m |-> <<14168, 13530, 4480, 178>>, e |-> -54]>>,
       <<[s |-> 0, m |-> <<5174, 8623, 3449, 202>>, e |-> -53],
         [s |-> 1, m |-> <<8920, 1130, 20018, 174>>, e |-> -54]>>,
       <<[s |-> 0, m |-> <<21845, 10922, 21845, 202>>, e |-> -53],
         [s |-> 1, m |-> <<16798, 25595, 18412, 172>>, e |-> -54]>>,
       <<[s |-> 0, m |-> <<4520, 30508, 1129, 203>>, e |-> -53],
         [s |-> 1, m |-> <<28775, 14843, 7292, 171>>, e |-> -54]>>,
       <<[s |-> 0, m |-> <<6554, 13107, 26214, 204>>, e |-> -53],
         [s |-> 1, m |-> <<7050, 6042, 27105, 164>>, e |-> -54]>>,
       <<[s |-> 0, m |-> <<14798, 14798, 14798, 206>>, e |-> -53],
         [s |-> 1, m |-> <<7633, 7765, 29299, 158>>, e |-> -54]>>,
       <<[s |-> 0, m |-> <<7562, 5041, 25206, 206>>, e |-> -53],
         [s |-> 1, m |-> <<31374, 9951, 24858, 157>>, e |-> -54]>>,
       <<[s |-> 0, m |-> <<7802, 29647, 7801, 207>>, e |-> -53],
         [s |-> 1, m |-> <<21059, 5337, 2803, 156>>, e |-> -54]>>,
       <<[s |-> 0, m |-> <<0, 0, 0, 208>>, e |-> -53],
         [s |-> 1, m |-> <<28264, 18145, 12283, 153>>, e |-> -54]>>,
       <<[s |-> 0, m |-> <<8495, 2427, 19418, 208>>, e |-> -53],
         [s |-> 1, m |-> <<30424, 5779, 8959, 151>>, e |-> -54]>>,
       <<[s |-> 0, m |-> <<14895, 17873, 14894, 209>>, e |-> -53],
         [s |-> 1, m |-> <<32458, 1641, 7451, 148>>, e |-> -54]>>,
       <<[s |-> 0, m |-> <<9362, 9362, 9362, 210>>, e |-> -53],
         [s |-> 1, m |-> <<11291, 29159, 9895, 145>>, e |-> -54]>>,
       <<[s |-> 0, m |-> <<23130, 13492, 26985, 210>>, e |-> -53],
         [s |-> 1, m |-> <<9056, 2084, 13607, 143>>, e |-> -54]>>,
       <<[s |-> 0, m |-> <<14247, 21370, 15671, 211>>, e |-> -53],
         [s |-> 1, m |-> <<16711, 19030, 4090, 141>>, e |-> -54]>>,
       <<[s |-> 0, m |-> <<14689, 9039, 28248, 211>>, e |-> -53],
         [s |-> 1, m |-> <<28691, 8278, 25738, 139>>, e |-> -54]>>,
       <<[s |-> 0, m |-> <<10923, 21845, 10922, 213>>, e |-> -53],
         [s |-> 1, m |-> <<23062, 1379, 22073, 134>>, e |-> -54]>>,
       <<[s |-> 0, m |-> <<23255, 23254, 23254, 214>>, e |-> -53],
         [s |-> 1, m |-> <<17229, 5227, 30257, 129>>, e |-> -54]>>,
       <<[s |-> 0, m |-> <<31457, 23592, 1310, 215>>, e |-> -53],
         [s |-> 1, m |-> <<8206, 7414, 25816, 128>>, e |-> -54]>>,
       <<[s |-> 0, m |-> <<12072, 31043, 18970, 215>>, e |-> -53],
         [s |-> 1, m |-> <<26637, 29188, 28762, 253>>, e |-> -55]>>,
       <<[s |-> 0, m |-> <<0, 0, 0, 216>>, e |-> -53],
         [s |-> 1, m |-> <<15925, 21004, 32610, 250>>, e |-> -55]>>,
       <<[s |-> 0, m |-> <<12603, 30247, 20164, 216>>, e |-> -53],
         [s |-> 1, m |-> <<20242, 29040, 25961, 246>>, e |-> -55]>>,
       <<[s |-> 0, m |-> <<13107, 26214, 19660, 217>>, e |-> -53],
         [s |-> 1, m |-> <<11660, 13419, 3028, 240>>, e |-> -55]>>,
       <<[s |-> 0, m |-> <<13350, 8495, 2427, 218>>, e |-> -53],
         [s |-> 1, m |-> <<22322, 10049, 28749, 236>>, e |-> -55]>>,
       <<[s |-> 0, m |-> <<14043, 14043, 14043, 219>>, e |-> -53],
         [s |-> 1, m |-> <<22413, 12420, 23915, 227>>, e |-> -55]>>,
       <<[s |-> 0, m |-> <<24858, 20338, 22598, 220>>, e |-> -53],
         [s |-> 1, m |-> <<23872, 7232, 8644, 219>>, e |-> -55]>>,
       <<[s |-> 0, m |-> <<2979, 29789, 2978, 221>>, e |-> -53],
         [s |-> 1, m |-> <<27667, 3782, 19012, 216>>, e |-> -55]>>,
       <<[s |-> 0, m |-> <<15292, 30583, 28398, 221>>, e |-> -53],
         [s |-> 1, m |-> <<32553, 30451, 13293, 211>>, e |-> -55]>>,
       <<[s |-> 0, m |-> <<27069, 24219, 19945, 222>>, e |-> -53],
         [s |-> 1, m |-> <<13189, 22397, 15501, 206>>, e |-> -55]>>,
       <<[s |-> 0, m |-> <<31711, 31710, 31710, 222>>, e |-> -53],
         [s |-> 1, m |-> <<26623, 27935, 3021, 204>>, e |-> -55]>>,
       <<[s |-> 0, m |-> <<0, 0, 0, 224>>, e |-> -53],
         [s |-> 1, m |-> <<15666, 5503, 8800, 197>>, e |-> -55]>>,
       <<[s |-> 0, m |-> <<23593, 1310, 9175, 225>>, e |-> -53],
         [s |-> 1, m |-> <<6670, 23965, 27877, 188>>, e |-> -55]>>,
       <<[s |-> 0, m |-> <<15420, 30840, 28912, 225>>, e |-> -53],
         [s |-> 1, m |-> <<26419, 4504, 29687, 184>>, e |-> -55]>>,
       <<[s |-> 0, m |-> <<17644, 22685, 15123, 226>>, e |-> -53],
         [s |-> 1, m |-> <<14488, 27530, 4024, 181>>, e |-> -55]>>,
       <<[s |-> 0, m |-> <<18204, 14563, 18204, 227>>, e |-> -53],
         [s |-> 1, m |-> <<22155, 29687, 104, 174>>, e |-> -55]>>,
       <<[s |-> 0, m |-> <<18725, 18724, 18724, 228>>, e |-> -53],
         [s |-> 1, m |-> <<21663, 3095, 13851, 167>>, e |-> -55]>>,
       <<[s |-> 0, m |-> <<18971, 20695, 1724, 229>>, e |-> -53],
         [s |-> 1, m |-> <<24191, 30523, 10348, 164>>, e |-> -55]>>,
       <<[s |-> 0, m |-> <<2260, 31638, 16948, 229>>, e |-> -53],
         [s |-> 1, m |-> <<10297, 2157, 10560, 161>>, e |-> -55]>>,
       <<[s |-> 0, m |-> <<19661, 6553, 13107, 230>>, e |-> -53],
         [s |-> 1, m |-> <<24717, 15164, 21337, 155>>, e |-> -55]>>,
       <<[s |-> 0, m |-> <<7399, 7399, 7399, 231>>, e |-> -53],
         [s |-> 1, m |-> <<26366, 12434, 11979, 150>>, e |-> -55]>>,
       <<[s |-> 0, m |-> <<20285, 31207, 20284, 231>>, e |-> -53],
         [s |-> 1, m |-> <<17927, 12919, 28025, 147>>, e |-> -55]>>,
       <<[s |-> 0, m |-> <<0, 0, 0, 232>>, e |-> -53],
         [s |-> 1, m |-> <<13463, 1366, 14007, 145>>, e |-> -55]>>,
       <<[s |-> 0, m |-> <<23831, 8936, 23831, 232>>, e |-> -53],
         [s |-> 1, m |-> <<7434, 20887, 26332, 140>>, e |-> -55]>>,
       <<[s |-> 0, m |-> <<7123, 27069, 24219, 233>>, e |-> -53],
         [s |-> 1, m |-> <<15499, 25141, 12923, 134>>, e |-> -55]>>,
       <<[s |-> 0, m |-> <<21845, 10922, 21845, 234>>, e |-> -53],
         [s |-> 1, m |-> <<5928, 14640, 17813, 128>>, e |-> -55]>>,
       <<[s |-> 0, m |-> <<15729, 11796, 17039, 235>>, e |-> -53],
         [s |-> 1, m |-> <<1825, 12142, 11881, 246>>, e |-> -56]>>,
       <<[s |-> 0, m |-> <<22686, 15123, 10082, 236>>, e |-> -53],
         [s |-> 1, m |-> <<28625, 28800, 16296, 236>>, e |-> -56]>>,
       <<[s |-> 0, m |-> <<23059, 20631, 1213, 237>>, e |-> -53],
         [s |-> 1, m |-> <<10046, 7957, 12849, 227>>, e |-> -56]>>,
       <<[s |-> 0, m |-> <<23406, 23405, 23405, 237>>, e |-> -53],
         [s |-> 1, m |-> <<16185, 28808, 31533, 218>>, e |-> -56]>>,
       <<[s |-> 0, m |-> <<12429, 10169, 11299, 238>>, e |-> -53],
         [s |-> 1, m |-> <<4926, 6508, 4439, 211>>, e |-> -56]>>,
       <<[s |-> 0, m |-> <<24030, 15291, 30583, 238>>, e |-> -53],
         [s |-> 1, m |-> <<16151, 32095, 27821, 203>>, e |-> -56]>>,
       <<[s |-> 0, m |-> <<15855, 15855, 15855, 239>>, e |-> -53],
         [s |-> 1, m |-> <<15561, 16595, 1604, 197>>, e |-> -56]>>,
       <<[s |-> 0, m |-> <<0, 0, 0, 240>>, e |-> -53],
         [s |-> 1, m |-> <<15180, 11679, 22546, 190>>, e |-> -56]>>,
       <<[s |-> 0, m |-> <<7710, 15420, 30840, 240>>, e |-> -53],
         [s |-> 1, m |-> <<4888, 30098, 4059, 179>>, e |-> -56]>>,
       <<[s |-> 0, m |-> <<25486, 7281, 25486, 241>>, e |-> -53],
         [s |-> 1, m |-> <<6651, 29277, 28917, 168>>, e |-> -56]>>,
       <<[s |-> 0, m |-> <<25869, 10347, 17246, 242>>, e |-> -53],
         [s |-> 1, m |-> <<8971, 31770, 24547, 159>>, e |-> -56]>>,
       <<[s |-> 0, m |-> <<26214, 19660, 6553, 243>>, e |-> -53],
         [s |-> 1, m |-> <<7709, 31327, 18126, 151>>, e |-> -56]>>,
       <<[s |-> 0, m |-> <<26526, 15603, 26526, 243>>, e |-> -53],
         [s |-> 1, m |-> <<28157, 27279, 5155, 144>>, e |-> -56]>>,
       <<[s |-> 0, m |-> <<11916, 20852, 11915, 244>>, e |-> -53],
         [s |-> 1, m |-> <<19477, 14494, 14741, 137>>, e |-> -56]>>,
       <<[s |-> 0, m |-> <<19946, 29918, 28493, 244>>, e |-> -53],
         [s |-> 1, m |-> <<11508, 3020, 11106, 131>>, e |-> -56]>>,
       <<[s |-> 0, m |-> <<10923, 21845, 10922, 245>>, e |-> -53],
         [s |-> 1, m |-> <<674, 19752, 16273, 251>>, e |-> -57]>>,
       <<[s |-> 0, m |-> <<7864, 22282, 24903, 245>>, e |-> -53],
         [s |-> 1, m |-> <<2984, 4532, 7489, 241>>, e |-> -57]>>,
       <<[s |-> 0, m |-> <<27727, 7561, 5041, 246>>, e |-> -53],
         [s |-> 1, m |-> <<21511, 20301, 25104, 231>>, e |-> -57]>>,
       <<[s |-> 0, m |-> <<27913, 26699, 16990, 246>>, e |-> -53],
         [s |-> 1, m |-> <<31356, 28380, 593, 223>>, e |-> -57]>>,
       <<[s |-> 0, m |-> <<28087, 28086, 28086, 246>>, e |-> -53],
         [s |-> 1, m |-> <<1029, 29236, 29705, 214>>, e |-> -57]>>,
       <<[s |-> 0, m |-> <<22599, 21468, 5649, 247>>, e |-> -53],
         [s |-> 1, m |-> <<8805, 16548, 11940, 207>>, e |-> -57]>>,
       <<[s |-> 0, m |-> <<28399, 24029, 15291, 247>>, e |-> -53],
         [s |-> 1, m |-> <<23489, 14874, 10935, 200>>, e |-> -57]>>,
       <<[s |-> 0, m |-> <<24312, 24311, 24311, 247>>, e |-> -53],
         [s |-> 1, m |-> <<7613, 18316, 25041, 193>>, e |-> -57]>>,
       <<[s |-> 0, m |-> <<0, 0, 0, 248>>, e |-> -53],
         [s |-> 1, m |-> <<22741, 5042, 20051, 187>>, e |-> -57]>>,
       <<[s |-> 0, m |-> <<0, 0, 0, 128>>, e |-> -52],
         [s |-> 0, m |-> <<>>, e |-> 0]>>}

\* The table as a function of p.
Log2Map == [p \in {t[1] : t \in Log2Table} |-> (CHOOSE t \in Log2Table : t[1] = p)[2]]

\* math.log2
Log2(p) == Log2Map[p]

\* The loop of compute_entropy from rule i on, H the sum so far.
RECURSIVE EntropyFrom(_, _, _, _)
EntropyFrom(freq, total, i, H) ==
    IF i > Len(freq) THEN H
    ELSE IF freq[i] <= 0 THEN EntropyFrom(freq, total, i + 1, H)
    ELSE EntropyFrom(freq, total, i + 1,
             CHOOSE h \in {FSub(H, FMul(p, Log2(p))) :
                              p \in {FDiv(FromInt(freq[i]), FromInt(total))}} : TRUE)

\* compute_entropy: H -= p * log2(p) over the rules of positive frequency in
\* table order, p = frequency / total; 0.0 when total <= 0.
ComputeEntropy(g) ==
    LET freq == [i \in 1..Len(g.rules) |-> g.rules[i].frequency]
        total == SumSeq(freq)
    IN  IF total <= 0 THEN FZero ELSE EntropyFrom(freq, total, 1, FZero)

\* The value of preset=None.
NoPreset == "<None>"

\* name.lower() on the preset names the model uses.
Lower(name) ==
    CASE name = "Strict" -> "strict"
      [] OTHER -> name

\* EmergenceDetector._preset_threshold
PresetThreshold(name) ==
    LET n == Lower(name)
    IN  IF n = "sensitive" THEN ToFloat(Frac(3, 20))
        ELSE IF n = "balanced" THEN ToFloat(Frac(1, 4))
        ELSE IF n = "strict" THEN ToFloat(Frac(2, 5))
        ELSE ToFloat(Frac(1, 4))

\* Mutant of NewDetector: min_persistence stored as given, without max(1, .).
NewDetectorNoClamp(c) ==
    [threshold |-> IF c.preset # NoPreset THEN PresetThreshold(c.preset)
                   ELSE c.threshold,
     mode |-> c.mode,
     k |-> c.k,
     min_persistence |-> c.min_persistence,
     hysteresis |-> FMax(FZero, c.hysteresis),
     min_gap |-> Max2(0, c.min_gap)]

\* EmergenceDetector.__init__: the detector's fields from the arguments
\* (float(x) of a float argument is x).  It has no failing path.
NewDetector(c) ==
    [threshold |-> IF c.preset # NoPreset THEN PresetThreshold(c.preset)
                   ELSE c.threshold,
     mode |-> c.mode,
     k |-> c.k,
     min_persistence |-> Max2(1, c.min_persistence),
     hysteresis |-> FMax(FZero, c.hysteresis),
     min_gap |-> Max2(0, c.min_gap)]

\* entropies[i + 1] - 2 * entropies[i] + entropies[i - 1] at the Python
\* index i (E is 1-based).
Curvature(E, i) == FAdd(FSub(E[i + 2], FMul(FTwo, E[i + 1])), E[i])

\* EmergenceDetector._curvatures
Curvatures(E) ==
    IF Len(E) < 3 THEN <<>>
    ELSE [i \in 1..(Len(E) - 2) |-> Curvature(E, i)]

MaxOf(E) == CHOOSE m \in Elems(E) : \A x \in Elems(E) : FLeq(x, m)

\* max(entropies) or 1.0
MaxEntropy(E) == IF MaxOf(E) = FZero THEN FOne ELSE MaxOf(E)

\* _median
Median(values) ==
    LET n == Len(values)
        vs == SortSeq(values, LAMBDA x, y : FLess(x, y))
        mid == n \div 2
    IN  IF n = 0 THEN FZero
        ELSE IF n % 2 = 1 THEN vs[mid + 1]
        ELSE FMul(FHalf, FAdd(vs[mid], vs[mid + 1]))

\* threshold_from_entropies: median + k * MAD of |d2| / max_entropy, the
\* configured threshold when there is no curvature.
ThresholdFromEntropies(det, E) ==
    IF Len(Curvatures(E)) = 0 THEN det.threshold
    ELSE LET out == {FAdd(med, FMul(det.k,
                         Median([i \in 1..Len(values) |-> FAbs(FSub(values[i], med))]))) :
                       <<values, med>> \in
                          {<<v, Median(v)>> :
                              v \in {[i \in 1..(Len(E) - 2) |->
                                        FDiv(FAbs(Curvature(E, i)), MaxEntropy(E))]}}}
         IN  CHOOSE thr \in out : TRUE

\* last_event_idx before the first event.
NoEventIdx == -1000000000

\* The locals of detect before the gating loop (emergence.py lines 106-117).
DetectLocals(det, E) ==
    [entropies |-> E,
     thr |-> IF det.mode # "adaptive" THEN det.threshold
             ELSE ThresholdFromEntropies(det, E),
     max_entropy |-> MaxEntropy(E),
     i |-> 1, run |-> 0, active |-> FALSE,
     last_event_idx |-> NoEventIdx, events |-> <<>>]

\* Mutant of DetectStep: active is cleared only strictly below the release
\* level.
DetectStepStrictRelease(det, E, i, st) ==
    LET Gated(d2, norm, low) ==
            LET run == IF FGeq(norm, st.thr) THEN st.run + 1 ELSE 0
                emit == /\ ~st.active
                        /\ run >= det.min_persistence
                        /\ (i - st.last_event_idx) >= det.min_gap
                event == [index |-> i,
                          magnitude |-> d2,
                          kind |-> IF FLess(d2, FZero) THEN "emergence" ELSE "dissolution",
                          entropy_before |-> E[i],
                          entropy_after |-> E[i + 2],
                          rules_added |-> <<>>]
                active1 == st.active \/ emit
                active2 == IF active1 /\ FLess(norm, low) THEN FALSE ELSE active1
            IN  [st EXCEPT !.run = run,
                           !.active = active2,
                           !.last_event_idx = IF emit THEN i ELSE st.last_event_idx,
                           !.events = IF emit THEN Append(st.events, event) ELSE st.events]
    IN  The({Gated(c[1], c[2], c[3]) :
                c \in {<<d2, FDiv(FAbs(d2), st.max_entropy),
                         FMax(FZero, FSub(st.thr, det.hysteresis))>> :
                          d2 \in {Curvature(E, i)}}})

\* Mutant of DetectStep: a zero curvature is typed as emergence.
DetectStepZeroEmergence(det, E, i, st) ==
    LET Gated(d2, norm, low) ==
            LET run == IF FGeq(norm, st.thr) THEN st.run + 1 ELSE 0
                emit == /\ ~st.active
                        /\ run >= det.min_persistence
                        /\ (i - st.last_event_idx) >= det.min_gap
                event == [index |-> i,
                          magnitude |-> d2,
                          kind |-> IF FLeq(d2, FZero) THEN "emergence" ELSE "dissolution",
                          entropy_before |-> E[i],
                          entropy_after |-> E[i + 2],
                          rules_added |-> <<>>]
                active1 == st.active \/ emit
                active2 == IF active1 /\ FLeq(norm, low) THEN FALSE ELSE active1
            IN  [st EXCEPT !.run = run,
                           !.active = active2,
                           !.last_event_idx = IF emit THEN i ELSE st.last_event_idx,
                           !.events = IF emit THEN Append(st.events, event) ELSE st.events]
    IN  The({Gated(c[1], c[2], c[3]) :
                c \in {<<d2, FDiv(FAbs(d2), st.max_entropy),
                         FMax(FZero, FSub(st.thr, det.hysteresis))>> :
                          d2 \in {Curvature(E, i)}}})

\* Mutant of DetectStep: the min_gap test left out of the emission guard.
DetectStepNoGap(det, E, i, st) ==
    LET Gated(d2, norm, low) ==
            LET run == IF FGeq(norm, st.thr) THEN st.run + 1 ELSE 0
                emit == /\ ~st.active
                        /\ run >= det.min_persistence
                event == [index |-> i,
                          magnitude |-> d2,
                          kind |-> IF FLess(d2, FZero) THEN "emergence" ELSE "dissolution",
                          entropy_before |-> E[i],
                          entropy_after |-> E[i + 2],
                          rules_added |-> <<>>]
                active1 == st.active \/ emit
                active2 == IF active1 /\ FLeq(norm, low) THEN FALSE ELSE active1
            IN  [st EXCEPT !.run = run,
                           !.active = active2,
                           !.last_event_idx = IF emit THEN i ELSE st.last_event_idx,
                           !.events = IF emit THEN Append(st.events, event) ELSE st.events]
    IN  The({Gated(c[1], c[2], c[3]) :
                c \in {<<d2, FDiv(FAbs(d2), st.max_entropy),
                         FMax(FZero, FSub(st.thr, det.hysteresis))>> :
                          d2 \in {Curvature(E, i)}}})

\* One iteration of the gating loop of detect at Python index i, on the
\* locals st of detect (thr, max_entropy, run, active, last_event_idx, events).
DetectStep(det, E, i, st) ==
    LET Gated(d2, norm, low) ==
            LET run == IF FGeq(norm, st.thr) THEN st.run + 1 ELSE 0
                emit == /\ ~st.active
                        /\ run >= det.min_persistence
                        /\ (i - st.last_event_idx) >= det.min_gap
                event == [index |-> i,
                          magnitude |-> d2,
                          kind |-> IF FLess(d2, FZero) THEN "emergence" ELSE "dissolution",
                          entropy_before |-> E[i],
                          entropy_after |-> E[i + 2],
                          rules_added |-> <<>>]
                active1 == st.active \/ emit
                active2 == IF active1 /\ FLeq(norm, low) THEN FALSE ELSE active1
            IN  [st EXCEPT !.run = run,
                           !.active = active2,
                           !.last_event_idx = IF emit THEN i ELSE st.last_event_idx,
                           !.events = IF emit THEN Append(st.events, event) ELSE st.events]
    IN  The({Gated(c[1], c[2], c[3]) :
                c \in {<<d2, FDiv(FAbs(d2), st.max_entropy),
                         FMax(FZero, FSub(st.thr, det.hysteresis))>> :
                          d2 \in {Curvature(E, i)}}})

RECURSIVE DetectLoop(_, _, _, _)
DetectLoop(det, E, i, st) ==
    IF i > Len(E) - 2 THEN st
    ELSE The({DetectLoop(det, E, i + 1, n) : n \in {DetectStep(det, E, i, st)}})

\* EmergenceDetector.detect
Detect(det, grammars) ==
    The({IF Len(E) < 3 THEN [entropies |-> E, events |-> <<>>]
         ELSE [entropies |-> E,
               events |-> The({DetectLoop(d, E, 1, st) :
                                  st \in {DetectLocals(d, E)}}).events] :
            d \in {det},
            E \in {[i \in 1..Len(grammars) |-> ComputeEntropy(grammars[i])]}})

(***************************************************************************)
(* engine.py.  An Optional value is <<>> (None) or <<v>>.                  *)
(***************************************************************************)
None == <<>>
Some(v) == <<v>>

\* The float 0.0 as a cost.
ZeroCost == Cost(0, 0, 2)

\* {k: tuple(v) for k, v in grammar.as_tuples().items()}
AsTuples(g) == [i \in 1..Len(g.rules) |-> [lhs |-> g.rules[i].lhs, rhs |-> g.rules[i].rhs]]

\* Decimal digits of n >= 0, and the lexicographic order of Python's str
\* comparison on two generated names prefix + str(m), prefix + str(n).
RECURSIVE Digits(_)
Digits(n) == IF n < 10 THEN <<n>> ELSE Append(Digits(n \div 10), n % 10)

RECURSIVE LexLess(_, _)
LexLess(a, b) ==
    IF a = <<>> THEN b # <<>>
    ELSE IF b = <<>> THEN FALSE
    ELSE IF Head(a) # Head(b) THEN Head(a) < Head(b)
    ELSE LexLess(Tail(a), Tail(b))

IdOfName(name) == CHOOSE n \in 1..MaxLongLen : RuleName(n) = name

\* sorted([lhs for lhs in nxt.keys() if lhs not in prev])
RulesAdded(prev, nxt) ==
    LET added == SelectSeq(RuleKeys(nxt), LAMBDA lhs : ~HasRule(prev, lhs))
    IN  SortSeq(added, LAMBDA x, y : LexLess(Digits(IdOfName(x)), Digits(IdOfName(y))))

\* Mutant of EventDicts: rules_added taken against grammars[idx], the
\* snapshot of the event itself, instead of grammars[idx - 1].
EventDictsFromEvent(events, grammars) ==
    [j \in 1..Len(events) |->
        LET idx == events[j].index
        IN  IF 1 <= idx /\ idx < Len(grammars) - 1
            THEN [events[j] EXCEPT !.rules_added =
                     RulesAdded(grammars[idx + 1], grammars[idx + 2])]
            ELSE events[j]]

\* The events of a detector run as plain dicts, each with its rules_added
\* (grammars[idx - 1] against grammars[idx + 1], for 1 <= idx < len - 1).
EventDicts(events, grammars) ==
    [j \in 1..Len(events) |->
        LET idx == events[j].index
        IN  IF 1 <= idx /\ idx < Len(grammars) - 1
            THEN [events[j] EXCEPT !.rules_added =
                     RulesAdded(grammars[idx], grammars[idx + 2])]
            ELSE events[j]]

\* covered / total_tokens of the summary (engine.py lines 68-76).
Coverage(compressed, g, reconstructed, original) ==
    LET total_tokens == IF reconstructed # <<>> THEN Len(reconstructed) ELSE Len(original)
        covered == SumSeq([i \in 1..Len(compressed) |->
                      IF HasRule(g, compressed[i])
                      THEN Len(Reconstruct(<<compressed[i]>>, g).out)
                      ELSE 0])
    IN  IF total_tokens > 0 THEN Frac(covered, total_tokens) ELSE Frac(0, 1)

RaisedRecursionError == [error |-> "RecursionError"]

\* EmergenceEngine.process from the inducer's output to the EngineResult of
\* line 89 (emergence fields still None); reconstruct raises RecursionError
\* when the grammar is cyclic.
ProcessSummary(toks, compressed, g) ==
    LET sigma == SigmaOf(toks)
        comps == ScoreComponents(g, compressed, sigma)
        rec == Reconstruct(compressed, g)
    IN  IF ~rec.ok THEN RaisedRecursionError
        ELSE [compressed |-> compressed,
              rules |-> AsTuples(g),
              mdl_score |-> comps.total,
              compression_ratio |-> CompressionRatio(toks, compressed, g),
              mdl_grammar_cost |-> comps.grammar_cost,
              mdl_data_cost |-> comps.data_cost,
              naive_mdl |-> NaiveBaseline(toks),
              coverage |-> Coverage(compressed, g, rec.out, toks),
              valid_lossless |-> (rec.out = toks),
              entropies |-> None,
              events |-> None,
              mdl_trajectory |-> None,
              windows_entropies |-> None,
              windows_mdl |-> None,
              window_events |-> None]

\* Mutant of ProcessEmergence: the trajectories taken over snapshots[:-1].
ProcessEmergenceSkipLast(res, toks, c, snaps) ==
    LET detector == NewDetector(c)
        grammars == [i \in 1..(Len(snaps) - 1) |-> snaps[i].grammar]
        det == Detect(detector, grammars)
        sigma == SigmaOf(toks)
        result_mdl == [i \in 1..(Len(snaps) - 1) |->
            LET comps == ScoreComponents(snaps[i].grammar, snaps[i].sequence, sigma)
            IN  [grammar |-> comps.grammar_cost, data |-> comps.data_cost,
                 total |-> comps.total]]
    IN  [res EXCEPT !.entropies = Some(det.entropies),
                    !.events = Some(EventDicts(det.events, grammars)),
                    !.mdl_trajectory = Some(result_mdl)]

\* EmergenceEngine.process, the `if emergence:` block (lines 90-137).
ProcessEmergence(res, toks, c, snaps) ==
    LET detector == NewDetector(c)
        grammars == [i \in 1..Len(snaps) |-> snaps[i].grammar]
        det == Detect(detector, grammars)
        sigma == SigmaOf(toks)
        result_mdl == [i \in 1..Len(snaps) |->
            LET comps == ScoreComponents(snaps[i].grammar, snaps[i].sequence, sigma)
            IN  [grammar |-> comps.grammar_cost, data |-> comps.data_cost,
                 total |-> comps.total]]
    IN  [res EXCEPT !.entropies = Some(det.entropies),
                    !.events = Some(EventDicts(det.events, grammars)),
                    !.mdl_trajectory = Some(result_mdl)]

\* Python's s[lo:hi] for lo >= 0 (a negative hi counts from the end).
PySlice(s, lo, hi) ==
    LET n == Len(s)
        h0 == IF hi < 0 THEN Max2(0, hi + n) ELSE hi
        h == IF h0 > n THEN n ELSE h0
        l == IF lo > n THEN n ELSE lo
    IN  IF l >= h THEN <<>> ELSE SubSeq(s, l + 1, h)

\* Mutant of BuildWindows: the range stopped one start early.
BuildWindowsNoLast(toks, window_size, step) ==
    LET stop == Max2(0, Len(toks) - window_size)
        stride == Max2(1, step)
        count == (stop + stride - 1) \div stride
        ws == [j \in 1..count |->
                 PySlice(toks, (j - 1) * stride, (j - 1) * stride + window_size)]
    IN  IF ws = <<>> THEN <<toks>> ELSE ws

\* process_sliding, lines 158-162: the windows at start = 0, step, 2*step, ...
\* below max(0, len(tokens) - window_size + 1), or the whole input.
BuildWindows(toks, window_size, step) ==
    LET stop == Max2(0, Len(toks) - window_size + 1)
        stride == Max2(1, step)
        count == (stop + stride - 1) \div stride
        ws == [j \in 1..count |->
                 PySlice(toks, (j - 1) * stride, (j - 1) * stride + window_size)]
    IN  IF ws = <<>> THEN <<toks>> ELSE ws

\* process_sliding from line 180 on: the summary of the last window, the
\* detector run over the per-window grammars and the EngineResult.
SlidingSummary(toks, c, wins, last_compressed, grammars, totals) ==
    LET last_grammar == grammars[Len(grammars)]
        last_window == wins[Len(wins)]
        rec == Reconstruct(last_compressed, last_grammar)
        det == Detect(NewDetector(c), grammars)
        events_dicts == EventDicts(det.events, grammars)
    IN  IF ~rec.ok THEN RaisedRecursionError
        ELSE [compressed |-> last_compressed,
              rules |-> AsTuples(last_grammar),
              mdl_score |-> totals[Len(totals)],
              compression_ratio |-> CompressionRatio(last_window, last_compressed, last_grammar),
              mdl_grammar_cost |-> ZeroCost,
              mdl_data_cost |-> ZeroCost,
              naive_mdl |-> NaiveBaseline(last_window),
              coverage |-> Coverage(last_compressed, last_grammar, rec.out, last_window),
              valid_lossless |-> (rec.out = last_window),
              entropies |-> Some(det.entropies),
              events |-> Some(events_dicts),
              mdl_trajectory |-> None,
              windows_entropies |-> Some(det.entropies),
              windows_mdl |-> Some(totals),
              window_events |-> Some(events_dicts)]

(***************************************************************************)
(* The calls.  Spec: EmergenceEngine.process on every bounded input, with  *)
(* and without emergence.  SpecSliding: EmergenceEngine.process_sliding.   *)
(***************************************************************************)
\* The default keyword arguments of process / process_sliding.
DefaultConfig ==
    [emergence |-> FALSE, threshold |-> ToFloat(Frac(1, 4)), preset |-> NoPreset,
     mode |-> "static", k |-> ToFloat(Frac(3, 1)), min_persistence |-> 2,
     hysteresis |-> ToFloat(Frac(1, 10)), min_gap |-> 2, window_size |-> 0, step |-> 0,
     cli |-> FALSE]

\* The calls of process: without emergence, and with emergence under the
\* default detector options and under min_persistence = 1.
ProcessConfigs ==
    {[DefaultConfig EXCEPT !.emergence = e] : e \in BOOLEAN}
        \cup {[DefaultConfig EXCEPT !.emergence = TRUE, !.min_persistence = 1]}

\* Sliding calls: every window size and step of a small range around 0, and
\* the detector options, valid and invalid; cli marks the calls made by the
\* command line (--sliding-window w --sliding-step st), the others are
\* direct calls of process_sliding.
WindowSizes == (-1)..MaxSlideLen
Steps == (-1)..2
Presets == {"sensitive", "balanced", "strict", "Strict", "bogus"}

SlidingConfigs ==
    {[DefaultConfig EXCEPT !.window_size = w, !.step = st] :
        w \in WindowSizes, st \in Steps}
    \cup {[DefaultConfig EXCEPT !.window_size = w, !.step = st, !.cli = TRUE] :
        w \in 1..MaxSlideLen, st \in Steps}
    \cup {[DefaultConfig EXCEPT !.window_size = 2, !.step = 1, !.preset = p] :
        p \in Presets}
    \cup {[DefaultConfig EXCEPT !.window_size = 2, !.step = 1, !.mode = m, !.k = FromInt(kn)] :
        m \in {"static", "adaptive"}, kn \in {-1, 3}}

InitCommon ==
    /\ sequence = <<>>
    /\ grammar = EmptyGrammar
    /\ rule_id = 1
    /\ snapshots = <<>>
    /\ changed = FALSE
    /\ windows = <<>>
    /\ widx = 0
    /\ wgrammars = <<>>
    /\ mdl_totals = <<>>
    /\ result = None
    /\ heap = EmptyHeap

\* The inputs of process: every short sequence over the alphabet and every
\* longer one over the two-word alphabets.
Inputs ==
    SeqsUpTo(Alphabet, MaxLen) \cup SeqsUpTo(PlainPair, MaxLongLen)
        \cup SeqsUpTo(NamePair, MaxLongLen)

\* No direct call of EmergenceDetector.detect is in progress.
NoDetectCall ==
    /\ dgrammars = <<>>
    /\ dself = None
    /\ dloop = None

Init ==
    /\ tokens \in Inputs
    /\ cfg \in ProcessConfigs
    /\ pc = "start"
    /\ InitCommon
    /\ NoDetectCall

\* compress / compress_trace, lines 27-29 / 59-62.
Start ==
    /\ pc = "start"
    /\ sequence' = tokens
    /\ grammar' = EmptyGrammar
    /\ rule_id' = 1
    /\ snapshots' = <<>>
    /\ heap' = HeapStart
    /\ pc' = "loop"
    /\ UNCHANGED <<tokens, cfg, changed, windows, widx, wgrammars, mdl_totals, result>>
    /\ UNCHANGED dvars

\* One iteration of the main loop that substitutes; compress_trace also
\* updates the usage and appends a snapshot.
SubstituteStep ==
    /\ pc = "loop"
    /\ CanSubstitute(sequence)
    /\ \E n \in {Substitute(sequence, grammar, rule_id)} :
          /\ sequence' = n.sequence
          /\ IF cfg.emergence
             THEN \E g \in {UpdateRuleUsage(n.sequence, n.grammar)} :
                     /\ grammar' = g
                     /\ snapshots' = Append(snapshots, Snapshot(n.sequence, g))
             ELSE /\ grammar' = n.grammar
                  /\ snapshots' = snapshots
    /\ heap' = LET h == HeapReplaceAll(HeapAddRule(heap, grammar, RuleName(rule_id)))
               IN  IF cfg.emergence THEN HeapSnapshot(h) ELSE h
    /\ rule_id' = rule_id + 1
    /\ UNCHANGED <<tokens, cfg, pc, changed, windows, widx, wgrammars, mdl_totals, result>>
    /\ UNCHANGED dvars

\* The main loop breaks (no digram, or the best count below 2) and
\* _inline_singletons is entered.
LoopExit ==
    /\ pc = "loop"
    /\ ~CanSubstitute(sequence)
    /\ changed' = TRUE
    /\ pc' = "inline"
    /\ UNCHANGED <<tokens, cfg, sequence, grammar, rule_id, snapshots,
                   windows, widx, wgrammars, mdl_totals, result, heap>>
    /\ UNCHANGED dvars

\* One iteration of `while changed and grammar.rules`.
InlinePassStep ==
    /\ pc = "inline"
    /\ changed /\ grammar.rules # <<>>
    /\ \E st \in {InlinePass(sequence, grammar)} :
          /\ sequence' = st.sequence
          /\ grammar' = st.grammar
          /\ changed' = st.changed
          /\ heap' = HeapInline(heap, st.grammar)
    /\ UNCHANGED <<tokens, cfg, pc, rule_id, snapshots, windows, widx, wgrammars,
                   mdl_totals, result>>
    /\ UNCHANGED dvars

\* Mutant of InlineExit: compress_trace returns without the final snapshot.
InlineExitNoFinal ==
    /\ pc = "inline"
    /\ ~(changed /\ grammar.rules # <<>>)
    /\ grammar' = UpdateRuleUsage(sequence, grammar)
    /\ pc' = "compressed"
    /\ UNCHANGED <<tokens, cfg, sequence, rule_id, snapshots, changed, windows, widx,
                   wgrammars, mdl_totals, result, heap>>
    /\ UNCHANGED dvars

\* _inline_singletons returns; _update_rule_usage; compress_trace appends the
\* final snapshot.
InlineExit ==
    /\ pc = "inline"
    /\ ~(changed /\ grammar.rules # <<>>)
    /\ \E g \in {UpdateRuleUsage(sequence, grammar)} :
          /\ grammar' = g
          /\ snapshots' = IF cfg.emergence
                          THEN Append(snapshots, Snapshot(sequence, g))
                          ELSE snapshots
    /\ heap' = IF cfg.emergence THEN HeapSnapshot(heap) ELSE heap
    /\ pc' = "compressed"
    /\ UNCHANGED <<tokens, cfg, sequence, rule_id, changed, windows, widx, wgrammars,
                   mdl_totals, result>>
    /\ UNCHANGED dvars

\* Mutant of Final: with emergence, process takes the last snapshot of the
\* main loop, the one before singleton inlining.
FinalBeforeInlining ==
    IF cfg.emergence
    THEN snapshots[IF Len(snapshots) > 1 THEN Len(snapshots) - 1 ELSE 1]
    ELSE [sequence |-> sequence, grammar |-> grammar]

\* What process takes as (compressed, grammar): the last snapshot with
\* emergence, the pair compress returned without.
Final ==
    IF cfg.emergence THEN snapshots[Len(snapshots)]
    ELSE [sequence |-> sequence, grammar |-> grammar]

\* process, lines 60-89: scores, reconstruction, coverage, the result; the
\* call returns here without emergence, and raises when reconstruct does.
Summarize ==
    /\ pc = "compressed"
    /\ \E res \in {ProcessSummary(tokens, Final.sequence, Final.grammar)} :
          /\ result' = res
          /\ pc' = IF res = RaisedRecursionError THEN "raised"
                   ELSE IF cfg.emergence THEN "emergence"
                   ELSE "done"
    /\ UNCHANGED <<tokens, cfg, sequence, grammar, rule_id, snapshots, changed,
                   windows, widx, wgrammars, mdl_totals, heap>>
    /\ UNCHANGED dvars

\* process, lines 90-138: the detector run, the MDL trajectory, the events.
EmergenceStep ==
    /\ pc = "emergence"
    /\ result' = ProcessEmergence(result, tokens, cfg, snapshots)
    /\ pc' = "done"
    /\ UNCHANGED <<tokens, cfg, sequence, grammar, rule_id, snapshots, changed,
                   windows, widx, wgrammars, mdl_totals, heap>>
    /\ UNCHANGED dvars

Next ==
    \/ Start
    \/ SubstituteStep
    \/ LoopExit
    \/ InlinePassStep
    \/ InlineExit
    \/ Summarize
    \/ EmergenceStep

Spec == Init /\ [][Next]_vars

\* The inputs of process_sliding: every short sequence over the sliding
\* alphabet and every longer one over the two plain words.
SlidingInputs ==
    SeqsUpTo(SlideAlphabet, MaxSlideLen) \cup SeqsUpTo(PlainPair, MaxSlideLongLen)

InitSliding ==
    /\ tokens \in SlidingInputs
    /\ cfg \in SlidingConfigs
    /\ pc = "windows"
    /\ InitCommon
    /\ NoDetectCall

\* cli.main: the step handed to process_sliding, args.sliding_step when
\* positive and max(1, args.sliding_window // 2) otherwise.
CliStep(sliding_step, sliding_window) ==
    IF sliding_step > 0 THEN sliding_step ELSE Max2(1, sliding_window \div 2)

\* The step argument process_sliding receives.
StepArgument(c) ==
    IF c.cli THEN CliStep(c.step, c.window_size) ELSE c.step

\* process_sliding, lines 158-170.
BuildWindowsStep ==
    /\ pc = "windows"
    /\ windows' = BuildWindows(tokens, cfg.window_size, StepArgument(cfg))
    /\ pc' = "window"
    /\ UNCHANGED <<tokens, cfg, sequence, grammar, rule_id, snapshots, changed,
                   widx, wgrammars, mdl_totals, result, heap>>
    /\ UNCHANGED dvars

\* One iteration of `for w in windows` (lines 172-178).
WindowStep ==
    /\ pc = "window"
    /\ widx < Len(windows)
    /\ \E c \in {Compress(windows[widx + 1])} :
          /\ sequence' = c.sequence
          /\ grammar' = c.grammar
          /\ wgrammars' = Append(wgrammars, c.grammar)
          /\ mdl_totals' = Append(mdl_totals,
                ScoreComponents(c.grammar, c.sequence, SigmaOf(tokens)).total)
    /\ widx' = widx + 1
    /\ UNCHANGED <<tokens, cfg, pc, rule_id, snapshots, changed, windows, result, heap>>
    /\ UNCHANGED dvars

\* process_sliding, lines 180-245.
SlidingReturn ==
    /\ pc = "window"
    /\ widx = Len(windows)
    /\ \E res \in {SlidingSummary(tokens, cfg, windows, sequence, wgrammars, mdl_totals)} :
          /\ result' = res
          /\ pc' = IF res = RaisedRecursionError THEN "raised" ELSE "done"
    /\ UNCHANGED <<tokens, cfg, sequence, grammar, rule_id, snapshots, changed,
                   windows, widx, wgrammars, mdl_totals, heap>>
    /\ UNCHANGED dvars

NextSliding ==
    \/ BuildWindowsStep
    \/ WindowStep
    \/ SlidingReturn

SpecSliding == InitSliding /\ [][NextSliding]_vars

(***************************************************************************)
(* SpecDetect: EmergenceDetector(...).detect(grammars) called directly, on *)
(* every bounded series of grammars and a range of detector options.       *)
(***************************************************************************)
\* A grammar whose rules have the frequencies fs, as _update_rule_usage
\* leaves them; detect reads nothing else of a grammar.
FreqGrammar(fs) ==
    LET sum == SumSeq(fs)
        total == IF sum = 0 THEN 1 ELSE sum
    IN  [EmptyGrammar EXCEPT
            !.rules = [i \in 1..Len(fs) |->
                          [lhs |-> RuleName(i), rhs |-> <<"a", "b">>,
                           frequency |-> fs[i],
                           probability |-> Frac(fs[i], total)]],
            !.non_terminals = {RuleName(i) : i \in 1..Len(fs)},
            !.terminals = IF fs = <<>> THEN {} ELSE {"a", "b"}]

\* Grammars of entropy 0, 1 and 2 bits.
EntropyGrammars ==
    {FreqGrammar(<<>>), FreqGrammar(<<2, 2>>), FreqGrammar(<<1, 1, 1, 1>>)}

\* The longest series of grammars given to detect.
MaxSeries == 5

\* The float 2^-60, a positive hysteresis below half the spacing of the
\* floats at any threshold a curvature can reach, so that
\* thr - hysteresis rounds to thr.
TinyHysteresis == [s |-> 0, m |-> MantOne, e |-> -112]

\* The detector options of the direct calls.
DetectConfigs ==
    {[DefaultConfig EXCEPT !.mode = m, !.min_persistence = mp, !.min_gap = mg,
                           !.hysteresis = h] :
        m \in {"static", "adaptive"}, mp \in {0, 1, 2}, mg \in {-1, 2},
        h \in {FZero, ToFloat(Frac(1, 10)), TinyHysteresis}}

\* cfg holds the constructor arguments, dself the fields __init__ made of them.
InitDetect ==
    /\ cfg \in DetectConfigs
    /\ dself = NewDetector(cfg)
    /\ dgrammars \in SeqsUpTo(EntropyGrammars, MaxSeries)
    /\ dloop = None
    /\ tokens = <<>>
    /\ pc = "detect"
    /\ InitCommon

\* detect on fewer than 3 grammars: the early return with no events, before
\* thr and max_entropy are assigned.
DetectShort ==
    /\ pc = "detect"
    /\ Len(dgrammars) < 3
    /\ dloop' = [entropies |-> [j \in 1..Len(dgrammars) |-> ComputeEntropy(dgrammars[j])],
                 thr |-> None, max_entropy |-> None,
                 i |-> 0, run |-> 0, active |-> FALSE,
                 last_event_idx |-> NoEventIdx, events |-> <<>>]
    /\ pc' = "detected"
    /\ UNCHANGED <<tokens, cfg, sequence, grammar, rule_id, snapshots, changed,
                   windows, widx, wgrammars, mdl_totals, result, heap, dgrammars, dself>>

\* detect on 3 grammars or more: the entropies, thr and max_entropy, then
\* the loop is entered.
DetectEnter ==
    /\ pc = "detect"
    /\ Len(dgrammars) >= 3
    /\ \E E \in {[j \in 1..Len(dgrammars) |-> ComputeEntropy(dgrammars[j])]} :
          dloop' = DetectLocals(dself, E)
    /\ pc' = "gating"
    /\ UNCHANGED <<tokens, cfg, sequence, grammar, rule_id, snapshots, changed,
                   windows, widx, wgrammars, mdl_totals, result, heap, dgrammars, dself>>

\* One iteration of `for i in range(1, len(entropies) - 1)`.
DetectIterate ==
    /\ pc = "gating"
    /\ dloop.i <= Len(dloop.entropies) - 2
    /\ \E st \in {DetectStep(dself, dloop.entropies, dloop.i, dloop)} :
          dloop' = [dloop EXCEPT !.i = @ + 1,
                                 !.run = st.run,
                                 !.active = st.active,
                                 !.last_event_idx = st.last_event_idx,
                                 !.events = st.events]
    /\ UNCHANGED <<tokens, cfg, pc, sequence, grammar, rule_id, snapshots, changed,
                   windows, widx, wgrammars, mdl_totals, result, heap, dgrammars, dself>>

\* The loop is exhausted: detect returns its entropies and events.
DetectReturn ==
    /\ pc = "gating"
    /\ dloop.i > Len(dloop.entropies) - 2
    /\ pc' = "detected"
    /\ UNCHANGED <<tokens, cfg, sequence, grammar, rule_id, snapshots, changed,
                   windows, widx, wgrammars, mdl_totals, result, heap>>
    /\ UNCHANGED dvars

NextDetect ==
    \/ DetectShort
    \/ DetectEnter
    \/ DetectIterate
    \/ DetectReturn

SpecDetect == InitDetect /\ [][NextDetect]_vars

(***************************************************************************)
(* Properties.                                                             *)
(***************************************************************************)
\* compress / compress_trace has returned.
Returned == pc \in {"compressed", "emergence", "done", "raised"}

\* Every (sequence, grammar) pair the inducer has handed out so far: the
\* snapshots of compress_trace and, once it has returned, the final pair.
Produced ==
    {snapshots[k] : k \in 1..Len(snapshots)}
        \cup (IF Returned THEN {[sequence |-> sequence, grammar |-> grammar]} ELSE {})

\* Occurrences of v in the sequence s and in the RHS of the rules of g whose
\* table position is in J.
OccurrencesIn(s, g, J, v) ==
    Cardinality({i \in 1..Len(s) : s[i] = v})
        + Cardinality({jk \in J \X (1..(2 * MaxLongLen)) :
                          jk[2] <= Len(g.rules[jk[1]].rhs) /\ g.rules[jk[1]].rhs[jk[2]] = v})

\* C1: for every input, reconstructing the pair compress returned gives back
\* the input exactly, and process reports valid_lossless = true.
C1_LosslessReconstruction ==
    /\ Returned =>
          LET r == Reconstruct(sequence, grammar) IN r.ok /\ r.out = tokens
    /\ pc = "done" => result.valid_lossless

\* C2: in every grammar the inducer hands out, the rule LHS names are
\* pairwise distinct and none of them is a token of the input.
C2_NameUniqueness ==
    \A p \in Produced :
        LET rules == p.grammar.rules
        IN  /\ \A i, j \in 1..Len(rules) : i # j => rules[i].lhs # rules[j].lhs
            /\ \A i \in 1..Len(rules) : rules[i].lhs \notin Elems(tokens)

\* C3: when compress returns, every remaining rule is used at least twice,
\* counting its LHS in the compressed sequence and in the RHSes of the rules.
C3_RuleUtility ==
    pc = "compressed" =>
        \A i \in 1..Len(grammar.rules) :
            OccurrencesIn(sequence, grammar, 1..Len(grammar.rules), grammar.rules[i].lhs) >= 2

\* C3 witness: compress has returned a grammar that kept a rule after
\* singleton inlining removed another one.
C3_Witness ==
    /\ pc = "compressed"
    /\ grammar.rules # <<>>
    /\ Len(grammar.rules) < rule_id - 1

\* C4: in every pair handed out, each rule's frequency is the count of its
\* LHS in the compressed sequence plus in the other rules' RHSes, and its
\* probability is frequency / sum of frequencies (0 when the sum is 0).
C4_FrequencyConsistency ==
    \A p \in Produced :
        LET rules == p.grammar.rules
            total == SumSeq([i \in 1..Len(rules) |-> rules[i].frequency])
        IN  \A i \in 1..Len(rules) :
                /\ rules[i].frequency =
                      OccurrencesIn(p.sequence, p.grammar, (1..Len(rules)) \ {i}, rules[i].lhs)
                /\ IF total = 0 THEN rules[i].probability.num = 0
                   ELSE rules[i].probability.num * total
                            = rules[i].frequency * rules[i].probability.den

\* The rule names reachable from the names in S by following RHSes, n levels deep.
RECURSIVE ReachableFrom(_, _, _)
ReachableFrom(g, S, n) ==
    LET next == {v \in UNION {Elems(g.rules[i].rhs) : i \in {k \in 1..Len(g.rules) :
                                                         g.rules[k].lhs \in S}} :
                    HasRule(g, v)}
    IN  IF n = 0 THEN {} ELSE next \cup ReachableFrom(g, next, n - 1)

\* C6: in every grammar the inducer hands out, no rule LHS reaches itself
\* through the RHSes; in particular no RHS contains its own LHS.
C6_NoCycles ==
    \A p \in Produced :
        \A i \in 1..Len(p.grammar.rules) :
            p.grammar.rules[i].lhs
                \notin ReachableFrom(p.grammar, {p.grammar.rules[i].lhs}, Len(p.grammar.rules))

\* C7: process runs to completion on every input: the recursive
\* reconstruction returns, so the call never ends in an error.
C7_RunsToCompletion == pc # "raised"

\* C8: on the empty input process returns, without error, the empty
\* compressed sequence, no rules, MDL total gamma(0) + 0 = 1, ratio 1.0,
\* coverage 0.0 and valid_lossless = true.
C8_EmptyInput ==
    (tokens = <<>> /\ pc \in {"done", "raised"}) =>
        /\ pc = "done"
        /\ result.compressed = <<>>
        /\ result.rules = <<>>
        /\ result.mdl_score.bits = 1
        /\ result.mdl_score.syms = 0
        /\ RatioIsOne(result.compression_ratio)
        /\ result.coverage.num = 0
        /\ result.valid_lossless

\* C8 witness: process has returned on the empty input.
C8_Witness == tokens = <<>> /\ ~cfg.emergence /\ pc = "done"

\* C9 as claimed: on the empty input with emergence, the entropies, the
\* events and the MDL trajectory are all empty.
C9_EmptyTrajectories ==
    (tokens = <<>> /\ cfg.emergence /\ pc = "done") =>
        /\ result.entropies = Some(<<>>)
        /\ result.events = Some(<<>>)
        /\ result.mdl_trajectory = Some(<<>>)

\* C9 amended: on the empty input with emergence, the events are empty and
\* the entropies and the MDL trajectory hold exactly the entry of the final
\* snapshot: entropy 0, grammar cost 0, data cost 1, total 1.
C9_FinalSnapshotOnly ==
    (tokens = <<>> /\ cfg.emergence /\ pc = "done") =>
        /\ result.events = Some(<<>>)
        /\ result.entropies = Some(<<FZero>>)
        /\ Len(result.mdl_trajectory[1]) = 1
        /\ LET m == result.mdl_trajectory[1][1]
           IN  /\ m.grammar.bits = 0 /\ m.grammar.syms = 0
               /\ m.data.bits = 1 /\ m.data.syms = 0
               /\ m.total.bits = 1 /\ m.total.syms = 0

\* C9 witness: process with emergence has returned on the empty input.
C9_Witness == tokens = <<>> /\ cfg.emergence /\ pc = "done"

\* A configuration the error taxonomy calls invalid: a window size <= 0, a
\* negative k, or a preset that is none of sensitive / balanced / strict.
InvalidConfiguration(c) ==
    \/ c.window_size <= 0
    \/ FLess(c.k, FZero)
    \/ c.preset # NoPreset /\ Lower(c.preset) \notin {"sensitive", "balanced", "strict"}

\* C10: process_sliding never returns a result for an invalid configuration.
C10_InvalidConfigurationRejected ==
    InvalidConfiguration(cfg) => pc # "done"

\* C11: the events of EmergenceDetector.detect, for every series of grammars
\* and every detector configuration, have strictly increasing indices, and
\* two consecutive events are at least min_gap apart.
C11_EventOrdering ==
    pc \in {"gating", "detected"} =>
        \A j \in 1..(Len(dloop.events) - 1) :
            /\ dloop.events[j].index < dloop.events[j + 1].index
            /\ dloop.events[j + 1].index - dloop.events[j].index >= dself.min_gap

\* C11 witness: detect has returned two events or more under a min_gap of
\* at least 2.
C11_Witness ==
    /\ pc = "detected"
    /\ Len(dloop.events) >= 2
    /\ dself.min_gap >= 2

\* The identities of the objects of one (sequence, grammar) pair: the list,
\* the Grammar, its ProductionRule objects and their rhs lists.
ObjectsOf(o) ==
    {o.sequence, o.grammar}
        \cup {o.rules[i].rule : i \in 1..Len(o.rules)}
        \cup {o.rules[i].rhs : i \in 1..Len(o.rules)}

\* No snapshot shares an object with the inducer's working pair, with the
\* caller's token list (identity 0) or with another snapshot.
NoSharing(h) ==
    \A k \in 1..Len(h.snapshots) :
        /\ ObjectsOf(h.snapshots[k]) \cap ObjectsOf(h) = {}
        /\ 0 \notin ObjectsOf(h.snapshots[k])
        /\ \A j \in 1..Len(h.snapshots) :
              j # k => ObjectsOf(h.snapshots[k]) \cap ObjectsOf(h.snapshots[j]) = {}

\* C12: in every step of the inducer (substitution, singleton inlining,
\* usage update), the snapshots taken so far keep their sequence, rules and
\* frequencies; a snapshot just taken holds the working sequence and a
\* grammar with the same rules, frequencies and probabilities as the working
\* grammar; and no snapshot shares a list, Grammar, rule or RHS list with the
\* working pair or with another snapshot.
C12_SnapshotIndependence ==
    [][/\ \A k \in 1..Len(snapshots) :
             k <= Len(snapshots') /\ snapshots'[k] = snapshots[k]
       /\ Len(snapshots') > Len(snapshots) =>
             LET p == snapshots'[Len(snapshots')]
             IN  /\ p.sequence = sequence'
                 /\ p.grammar.rules = grammar'.rules
                 /\ Len(heap'.snapshots) = Len(snapshots')
                 /\ [i \in 1..Len(p.grammar.rules) |->
                        heap'.snapshots[Len(snapshots')].rules[i].lhs] = RuleKeys(p.grammar)
       /\ NoSharing(heap')]_vars

\* C12 witness: compress_trace has returned after singleton inlining removed
\* a rule that an earlier snapshot still holds.
C12_Witness ==
    /\ cfg.emergence
    /\ pc = "compressed"
    /\ Len(snapshots) >= 3
    /\ Len(grammar.rules) < Len(snapshots[Len(snapshots) - 1].grammar.rules)

\* The windows of the enumeration tokens[s : s + w] for s = 0, stride,
\* 2*stride, ... while s + w <= |tokens|, or the whole input when none fits.
WindowsAt(toks, w, stride) ==
    LET n == Cardinality({j \in 0..Len(toks) : j * stride + w <= Len(toks)})
        ws == [j \in 1..n |-> SubSeq(toks, (j - 1) * stride + 1, (j - 1) * stride + w)]
    IN  IF n = 0 THEN <<toks>> ELSE ws

\* process_sliding has built its windows.
WindowsBuilt == pc \in {"window", "done", "raised"} /\ windows # <<>>

\* C13: with window_size >= 1 and step >= 1, process_sliding builds exactly
\* the windows tokens[s : s + window_size] for s = 0, step, 2*step, ... with
\* s + window_size <= |tokens|, in that order, each of length window_size,
\* and the whole token sequence as the single window when none fits.
C13_WindowEnumeration ==
    (WindowsBuilt /\ cfg.window_size >= 1 /\ StepArgument(cfg) >= 1) =>
        /\ windows = WindowsAt(tokens, cfg.window_size, StepArgument(cfg))
        /\ Len(tokens) >= cfg.window_size =>
              \A j \in 1..Len(windows) : Len(windows[j]) = cfg.window_size
        /\ Len(tokens) < cfg.window_size => windows = <<tokens>>

\* C13 witness: a direct call with step 2 has built three windows or more.
C13_Witness ==
    /\ WindowsBuilt
    /\ ~cfg.cli
    /\ cfg.step = 2
    /\ cfg.window_size >= 2
    /\ Len(windows) >= 3

\* C14: given a non-positive step, the windows are those of the stride
\* window_size / 2 (stated for the even window sizes, where the half is a
\* whole stride).
C14_NonPositiveStepHalvesWindow ==
    (WindowsBuilt /\ cfg.step <= 0 /\ cfg.window_size >= 2 /\ cfg.window_size % 2 = 0) =>
        windows = WindowsAt(tokens, cfg.window_size, cfg.window_size \div 2)

\* Two costs of equal value, bits + syms * log2(V).
SameCost(a, b) ==
    /\ a.bits = b.bits
    /\ a.syms = b.syms
    /\ a.syms = 0 \/ a.V = b.V

\* C15: in every result returned, mdl_score = mdl_grammar_cost +
\* mdl_data_cost, the grammar cost being the sum of the RHS lengths times
\* the per-symbol cost and the data cost gamma(|compressed|) plus
\* |compressed| times the per-symbol cost.
C15_TotalIsSumOfParts ==
    pc = "done" =>
        /\ SameCost(result.mdl_score,
                    CostAdd(result.mdl_grammar_cost, result.mdl_data_cost))
        /\ result.mdl_grammar_cost.bits = 0
        /\ result.mdl_grammar_cost.syms =
              SumSeq([i \in 1..Len(result.rules) |-> Len(result.rules[i].rhs)])
        /\ result.mdl_data_cost.bits = EliasGammaLength(Len(result.compressed))
        /\ result.mdl_data_cost.syms = Len(result.compressed)

\* The tokens of scenario S1.
SingleDigram == <<"a", "b", "a", "b", "a", "b">>

\* C16: for tokens [a, b, a, b, a, b] compress returns exactly the rule
\* R1 -> (a, b) and the compressed sequence [R1, R1, R1], and the result
\* is lossless.
C16_SingleDigram ==
    tokens = SingleDigram =>
        /\ Returned =>
              /\ sequence = <<"R1", "R1", "R1">>
              /\ AsTuples(grammar) = <<[lhs |-> "R1", rhs |-> <<"a", "b">>]>>
              /\ Reconstruct(sequence, grammar) = [ok |-> TRUE, out |-> tokens]
        /\ pc \notin {"raised"}
        /\ pc = "done" =>
              /\ result.compressed = <<"R1", "R1", "R1">>
              /\ result.rules = <<[lhs |-> "R1", rhs |-> <<"a", "b">>]>>
              /\ result.valid_lossless

\* C16 witness: process has returned on [a, b, a, b, a, b].
C16_Witness ==
    /\ tokens = SingleDigram
    /\ ~cfg.emergence
    /\ pc = "done"

\* The positions where the digram d starts in s (occurrences may overlap).
StartsOf(s, d) == {i \in 1..(Len(s) - 1) : s[i] = d[1] /\ s[i + 1] = d[2]}

\* The digrams of s.
DigramsOf(s) == {<<s[i], s[i + 1]>> : i \in 1..(Len(s) - 1)}

\* d has the highest overlapping count in s and, among the digrams of that
\* count, the leftmost first occurrence.
IsWinner(s, d) ==
    /\ d \in DigramsOf(s)
    /\ \A e \in DigramsOf(s) \ {d} :
          \/ Cardinality(StartsOf(s, e)) < Cardinality(StartsOf(s, d))
          \/ /\ Cardinality(StartsOf(s, e)) = Cardinality(StartsOf(s, d))
             /\ \E i \in StartsOf(s, d) : \A j \in StartsOf(s, e) : i < j

\* C17: in each iteration of the main loop, when some digram occurs twice or
\* more the rule added has as RHS the digram of highest overlapping count,
\* the leftmost-first one among ties; when none does, the loop stops and no
\* rule is added.
C17_DigramSelection ==
    [][pc = "loop" =>
          IF \E d \in DigramsOf(sequence) : Cardinality(StartsOf(sequence, d)) >= 2
          THEN /\ pc' = "loop"
               /\ Len(grammar'.rules) = Len(grammar.rules) + 1
               /\ \A i \in 1..Len(grammar.rules) :
                     /\ grammar'.rules[i].lhs = grammar.rules[i].lhs
                     /\ grammar'.rules[i].rhs = grammar.rules[i].rhs
               /\ grammar'.rules[Len(grammar'.rules)].lhs = RuleName(rule_id)
               /\ IsWinner(sequence, grammar'.rules[Len(grammar'.rules)].rhs)
          ELSE /\ pc' = "inline"
               /\ grammar' = grammar
               /\ sequence' = sequence]_vars

\* C17 witness: after a substitution, the loop is at a sequence in which two
\* digrams are tied at the highest count, 2 or more.
C17_Witness ==
    /\ pc = "loop"
    /\ rule_id > 1
    /\ \E d, e \in DigramsOf(sequence) :
          /\ d # e
          /\ Cardinality(StartsOf(sequence, d)) >= 2
          /\ Cardinality(StartsOf(sequence, d)) = Cardinality(StartsOf(sequence, e))
          /\ \A f \in DigramsOf(sequence) :
                Cardinality(StartsOf(sequence, f)) <= Cardinality(StartsOf(sequence, d))

\* Position i of s is where the left-to-right scan replaces the digram d: d
\* starts at i and the scan did not replace at i - 1.
RECURSIVE ReplacedAt(_, _, _)
ReplacedAt(s, d, i) ==
    /\ 1 <= i /\ i < Len(s)
    /\ s[i] = d[1] /\ s[i + 1] = d[2]
    /\ ~ReplacedAt(s, d, i - 1)

\* The output of the scan: over the positions it visits (those not swallowed
\* by a replacement at the position before), in order, lhs where it replaces
\* and the symbol itself elsewhere.
ScanOutput(s, d, lhs) ==
    LET visited == {i \in 1..Len(s) : ~ReplacedAt(s, d, i - 1)}
        at == [k \in 1..Cardinality(visited) |->
                  CHOOSE i \in visited : Cardinality({j \in visited : j < i}) = k - 1]
    IN  [k \in 1..Cardinality(visited) |->
            IF ReplacedAt(s, d, at[k]) THEN lhs ELSE s[at[k]]]

\* C18: _replace_all(seq, (x, y), lhs) is the left-to-right non-overlapping
\* scan, for the working sequence of every loop state and every digram over
\* its symbols (x = y included); the substitution step installs that output
\* as a new list and leaves its input list and the caller's tokens alone.
C18_ReplaceAllScan ==
    [][pc = "loop" =>
          /\ \A x, y \in Elems(sequence) :
                ReplaceAll(sequence, <<x, y>>, RuleName(rule_id))
                    = ScanOutput(sequence, <<x, y>>, RuleName(rule_id))
          /\ pc' = "loop" =>
                /\ sequence' = ScanOutput(sequence,
                                          grammar'.rules[Len(grammar'.rules)].rhs,
                                          RuleName(rule_id))
                /\ tokens' = tokens
                /\ heap'.sequence \notin {0, heap.sequence}]_vars

\* C18 witness: the digram (a, a) has been replaced in a a a, giving [R1, a].
C18_Witness ==
    /\ pc = "loop"
    /\ tokens = <<"a", "a", "a">>
    /\ sequence = <<"R1", "a">>
    /\ AsTuples(grammar) = <<[lhs |-> "R1", rhs |-> <<"a", "a">>]>>

\* The snapshot p records the pair (s, g) as the usage update left it: the
\* same sequence and rules, every frequency the usage count of its LHS.
Records(p, s, g) ==
    /\ p.sequence = s
    /\ p.grammar.rules = g.rules
    /\ \A i \in 1..Len(p.grammar.rules) :
          p.grammar.rules[i].frequency
              = UsageOf(p.sequence, p.grammar, p.grammar.rules[i].lhs)

\* C19: compress_trace appends one snapshot per substitution, in order, of
\* the pair as it is after the usage update and with no rule inlined (all
\* the rules added so far are in it); when the loop has ended and singleton
\* inlining is done it appends one final snapshot of the inlined, recounted
\* pair, which is the pair compress returns; no other step appends.  So k
\* substitutions give k + 1 snapshots, and no repeated digram gives one.
C19_SnapshotPerSubstitution ==
    [][cfg.emergence =>
          IF pc = "loop" /\ pc' = "loop"
          THEN /\ Len(snapshots') = Len(snapshots) + 1
               /\ Len(snapshots') = rule_id' - 1
               /\ Records(snapshots'[Len(snapshots')], sequence', grammar')
               /\ RuleKeys(snapshots'[Len(snapshots')].grammar)
                     = [i \in 1..(rule_id' - 1) |-> RuleName(i)]
          ELSE IF pc = "inline" /\ pc' = "compressed"
          THEN /\ Len(snapshots') = Len(snapshots) + 1
               /\ Len(snapshots') = rule_id
               /\ rule_id = 1 => Len(snapshots') = 1
               /\ Records(snapshots'[Len(snapshots')], sequence', grammar')
               /\ LET c == Compress(tokens)
                  IN  /\ snapshots'[Len(snapshots')].sequence = c.sequence
                      /\ snapshots'[Len(snapshots')].grammar.rules = c.grammar.rules
          ELSE Len(snapshots') = Len(snapshots)]_vars

\* C19 witness: compress_trace has returned three snapshots after two
\* substitutions.
C19_Witness ==
    /\ cfg.emergence
    /\ pc = "compressed"
    /\ rule_id = 3
    /\ Len(snapshots) = 3

\* C20: the j-th pre-inlining snapshot holds exactly j rules, among them
\* every rule of the snapshot before it with the same RHS, so the rule count
\* never decreases across the pre-inlining snapshots.
C20_TraceMonotonicity ==
    cfg.emergence =>
        \A j \in 1..Len(snapshots) :
            j <= rule_id - 1 =>
                /\ Len(snapshots[j].grammar.rules) = j
                /\ j > 1 =>
                      \A i \in 1..(j - 1) :
                          /\ snapshots[j].grammar.rules[i].lhs
                                = snapshots[j - 1].grammar.rules[i].lhs
                          /\ snapshots[j].grammar.rules[i].rhs
                                = snapshots[j - 1].grammar.rules[i].rhs

\* C20 witness: three substitutions have been recorded, and the last
\* pre-inlining snapshot still holds a rule that is used at most once.
C20_Witness ==
    /\ cfg.emergence
    /\ pc = "loop"
    /\ Len(snapshots) >= 3
    /\ \E i \in 1..Len(snapshots[Len(snapshots)].grammar.rules) :
          snapshots[Len(snapshots)].grammar.rules[i].frequency <= 1

\* The normalized absolute curvature c_i = |d2_i| / max_entropy of the
\* detector run in progress, at the Python index i.
NormAt(i) == FDiv(FAbs(Curvature(dloop.entropies, i)), dloop.max_entropy)

\* c_i >= theta, and c_i <= max(0, theta - hysteresis).
AtThreshold(i) == FGeq(NormAt(i), dloop.thr)

AtRelease(i) == FLeq(NormAt(i), FMax(FZero, FSub(dloop.thr, dself.hysteresis)))

\* C21: detect is the specified gate.  It returns no event on fewer than 3
\* grammars; otherwise it scans i = 1..n-2 and, at each i, run is reset to 0
\* when c_i < theta and incremented otherwise; an event is emitted at i if
\* and only if active is false, run >= min_persistence and
\* i - last_event_index >= min_gap, and then active and last_event_index are
\* set; afterwards active is cleared when c_i <= max(0, theta - hysteresis).
C21_GateRefinement ==
    [][/\ (pc = "detect" /\ Len(dgrammars) < 3) =>
             pc' = "detected" /\ dloop'.events = <<>>
       /\ (pc = "detect" /\ Len(dgrammars) >= 3) =>
             /\ pc' = "gating" /\ dloop'.i = 1 /\ dloop'.run = 0
             /\ ~dloop'.active /\ dloop'.events = <<>>
             /\ dloop'.max_entropy = MaxEntropy(dloop'.entropies)
             /\ dloop'.thr = IF dself.mode = "adaptive"
                             THEN ThresholdFromEntropies(dself, dloop'.entropies)
                             ELSE dself.threshold
       /\ (pc = "gating" /\ pc' = "detected") =>
             dloop.i = Len(dloop.entropies) - 1 /\ dloop' = dloop
       /\ (pc = "gating" /\ pc' = "gating") =>
             LET i == dloop.i
                 run == IF AtThreshold(i)
                        THEN dloop.run + 1 ELSE 0
                 emit == /\ ~dloop.active
                         /\ run >= dself.min_persistence
                         /\ i - dloop.last_event_idx >= dself.min_gap
                 active == dloop.active \/ emit
             IN  /\ 1 <= i /\ i <= Len(dloop.entropies) - 2
                 /\ dloop'.i = i + 1
                 /\ dloop'.run = run
                 /\ emit => /\ Len(dloop'.events) = Len(dloop.events) + 1
                            /\ SubSeq(dloop'.events, 1, Len(dloop.events)) = dloop.events
                            /\ dloop'.events[Len(dloop'.events)].index = i
                            /\ dloop'.last_event_idx = i
                 /\ ~emit => /\ dloop'.events = dloop.events
                             /\ dloop'.last_event_idx = dloop.last_event_idx
                 /\ dloop'.active =
                       (active /\ ~AtRelease(i))]_vars

\* C21 witness: detect has returned after a step that emitted an event and
\* cleared active in the same step (two events at consecutive indices).
C21_Witness ==
    /\ pc = "detected"
    /\ \E j \in 1..(Len(dloop.events) - 1) :
          dloop.events[j + 1].index = dloop.events[j].index + 1

\* C22: every event has an index i with 1 <= i <= n-2, magnitude
\* E[i+1] - 2*E[i] + E[i-1], entropy_before E[i-1], entropy_after E[i+1],
\* and kind emergence exactly when the magnitude is negative, dissolution
\* otherwise (magnitude 0 included).
C22_EventFields ==
    pc \in {"gating", "detected"} =>
        \A j \in 1..Len(dloop.events) :
            LET e == dloop.events[j]
                E == dloop.entropies
            IN  /\ 1 <= e.index /\ e.index <= Len(E) - 2
                /\ e.magnitude = FAdd(FSub(E[e.index + 2], FMul(FromInt(2), E[e.index + 1])), E[e.index])
                /\ e.entropy_before = E[e.index]
                /\ e.entropy_after = E[e.index + 2]
                /\ e.kind = "emergence" <=> FLess(e.magnitude, FZero)
                /\ e.kind = "dissolution" <=> FGeq(e.magnitude, FZero)

\* C22 witness: detect has returned an emergence event and an event of
\* magnitude 0.
C22_Witness ==
    /\ pc = "detected"
    /\ \E j \in 1..Len(dloop.events) : FLess(dloop.events[j].magnitude, FZero)
    /\ \E j \in 1..Len(dloop.events) : dloop.events[j].magnitude = FZero

\* C23: in every grammar the inducer hands out, each symbol of each rule's
\* RHS is registered in terminals or is a key of the rule table.
C23_RhsSymbolsResolved ==
    \A p \in Produced :
        \A i \in 1..Len(p.grammar.rules) :
            \A v \in Elems(p.grammar.rules[i].rhs) :
                v \in p.grammar.terminals \/ HasRule(p.grammar, v)

\* C24: in every grammar the inducer hands out, the keys of the rule table
\* are exactly the names registered in non_terminals (the start symbol set
\* aside).
C24_RuleKeysAreNonTerminals ==
    \A p \in Produced :
        Elems(RuleKeys(p.grammar)) = p.grammar.non_terminals \ {p.grammar.start_symbol}

\* The rule table of g as compress and compress_trace are compared on it:
\* per LHS name the RHS tuple and the frequency.
RuleTable(g) ==
    {[lhs |-> g.rules[i].lhs, rhs |-> g.rules[i].rhs,
      frequency |-> g.rules[i].frequency] : i \in 1..Len(g.rules)}

\* C25: the last snapshot of compress_trace(tokens) equals compress(tokens),
\* in the compressed sequence, the rule table (LHS names, RHS tuples) and
\* the rule frequencies; so process returns the compressed sequence and the
\* rules of compress(tokens) whether emergence is enabled or not.
C25_TraceEndsInCompress ==
    LET c == Compress(tokens)
    IN  /\ (cfg.emergence /\ Returned) =>
              /\ snapshots[Len(snapshots)].sequence = c.sequence
              /\ RuleTable(snapshots[Len(snapshots)].grammar) = RuleTable(c.grammar)
              /\ Len(snapshots[Len(snapshots)].grammar.rules) = Len(c.grammar.rules)
        /\ pc \in {"emergence", "done"} =>
              /\ result.compressed = c.sequence
              /\ result.rules = AsTuples(c.grammar)

\* C25 witness: process has returned with emergence enabled, from a trace of
\* at least three snapshots whose last one lost a rule to singleton inlining
\* and kept another.
C25_Witness ==
    /\ cfg.emergence
    /\ pc = "done"
    /\ Len(snapshots) >= 3
    /\ Len(snapshots[Len(snapshots)].grammar.rules)
          < Len(snapshots[Len(snapshots) - 1].grammar.rules)
    /\ result.rules # <<>>

\* No input token is a name the inducer generates (prefix, then a positive
\* integer; at most one rule per token is ever created).
NoRuleNameToken ==
    \A i \in 1..Len(tokens) : \A n \in 1..(Len(tokens) + 1) : tokens[i] # RuleName(n)

\* Expanding the sequence s under the grammar g gives the input back.
ExpandsToTokens(s, g) ==
    LET r == Reconstruct(s, g) IN r.ok /\ r.out = tokens

\* C26: when no input token is a generated rule name, every snapshot of
\* compress_trace reconstructs to the input, and so does the working pair
\* after each substitution, after the inlining of each rule within a pass of
\* _inline_singletons, and after each pass.
C26_ExpansionInvariant ==
    NoRuleNameToken =>
        /\ \A k \in 1..Len(snapshots) :
              ExpandsToTokens(snapshots[k].sequence, snapshots[k].grammar)
        /\ pc \in {"loop", "inline", "compressed", "emergence", "done"} =>
              ExpandsToTokens(sequence, grammar)
        /\ (pc = "inline" /\ changed /\ grammar.rules # <<>>) =>
              \A k \in 1..Len(grammar.rules) :
                  LET st == InlineKeys([sequence |-> sequence, grammar |-> grammar,
                                        changed |-> FALSE],
                                       SubSeq(RuleKeys(grammar), 1, k), sequence, grammar)
                  IN  ExpandsToTokens(st.sequence, st.grammar)

\* C26 witness: a trace of at least three snapshots of an input without rule
\* names, whose rule of the last substitution was inlined back into the
\* sequence.
C26_Witness ==
    /\ NoRuleNameToken
    /\ cfg.emergence
    /\ pc = "compressed"
    /\ Len(snapshots) >= 3
    /\ Len(grammar.rules) < Len(snapshots[Len(snapshots) - 1].grammar.rules)
    /\ Len(sequence) > Len(snapshots[Len(snapshots) - 1].sequence)

\* C27: every event of detect at index i has i >= min_persistence and
\* c_j >= theta at each of the min_persistence indices j ending at i
\* (min_persistence as __init__ stored it, at least 1); so no event is at an
\* index whose normalized curvature is below the threshold.
C27_PersistenceBeforeEvent ==
    pc \in {"gating", "detected"} =>
        \A j \in 1..Len(dloop.events) :
            LET i == dloop.events[j].index
            IN  /\ dself.min_persistence >= 1
                /\ i >= dself.min_persistence
                /\ \A n \in (i - dself.min_persistence + 1)..i :
                      AtThreshold(n)
                /\ AtThreshold(i)

\* C27 witness: detect has returned an event of a detector with
\* min_persistence 2, at index 3, whose run started after an index below
\* the threshold.
C27_Witness ==
    /\ pc = "detected"
    /\ dself.min_persistence = 2
    /\ \E j \in 1..Len(dloop.events) :
          /\ dloop.events[j].index = 3
          /\ ~AtThreshold(1)

\* C28: two consecutive events at e1 < e2 have a deactivating index m
\* between them, e1 <= m < e2, with c_m <= max(0, theta - hysteresis); when
\* theta > 0 and hysteresis > 0 that m is after e1 and is below the
\* threshold (the run restarts), so e2 >= e1 + 1 + min_persistence.
\* The second part fails for a positive hysteresis that the float subtraction
\* thr - hysteresis absorbs: the release level is then thr itself, an index
\* with c = thr both counts for the run and releases, and the next index can
\* hold the next event.
C28_ReleaseBetweenEvents ==
    pc \in {"gating", "detected"} =>
        \A j \in 1..(Len(dloop.events) - 1) :
            LET e1 == dloop.events[j].index
                e2 == dloop.events[j + 1].index
                E == dloop.entropies
            IN  /\ e1 < e2
                /\ \E m \in e1..(e2 - 1) : AtRelease(m)
                /\ (FLess(FZero, dloop.thr) /\ FLess(FZero, dself.hysteresis)) =>
                      /\ \E m \in (e1 + 1)..(e2 - 1) :
                            AtRelease(m) /\ ~AtThreshold(m)
                      /\ ~AtRelease(e1)
                      /\ e2 >= e1 + 1 + dself.min_persistence

\* The names x, y of generated rules in the order of Python's string
\* comparison.
NameBefore(x, y) == LexLess(Digits(IdOfName(x)), Digits(IdOfName(y)))

\* C29: in plain emergence mode, the rules_added of an event at index i
\* (0-based) is the list, sorted as strings and without repetition, of the
\* rule names of snapshot i+1 that snapshot i-1 does not have; when snapshot
\* i+1 is not the final snapshot these are exactly the names of
\* substitutions i+1 and i+2, prefix+(i+1) then prefix+(i+2) as sorted.
C29_RulesAdded ==
    (cfg.emergence /\ pc = "done") =>
        \A j \in 1..Len(result.events[1]) :
            LET e == result.events[1][j]
                i == e.index
                added == e.rules_added
                before == snapshots[i].grammar
                after == snapshots[i + 2].grammar
            IN  /\ 1 <= i /\ i + 2 <= Len(snapshots)
                /\ Elems(added) = {lhs \in Elems(RuleKeys(after)) : ~HasRule(before, lhs)}
                /\ \A a, b \in 1..Len(added) : a < b => NameBefore(added[a], added[b])
                /\ i + 2 < Len(snapshots) =>
                      /\ Elems(added) = {RuleName(i + 1), RuleName(i + 2)}
                      /\ Len(added) = 2
                      /\ added = IF NameBefore(RuleName(i + 1), RuleName(i + 2))
                                 THEN <<RuleName(i + 1), RuleName(i + 2)>>
                                 ELSE <<RuleName(i + 2), RuleName(i + 1)>>

\* C29 witness: process has returned an event whose next snapshot is not
\* the final one, with its two rules.
C29_Witness ==
    /\ cfg.emergence
    /\ pc = "done"
    /\ \E j \in 1..Len(result.events[1]) :
          /\ result.events[1][j].index + 2 < Len(snapshots)
          /\ Len(result.events[1][j].rules_added) = 2

\* Every lhs of the sequence out replaced by x, y.
ExpandLhs(out, lhs, x, y) ==
    Flatten([k \in 1..Len(out) |-> IF out[k] = lhs THEN <<x, y>> ELSE <<out[k]>>])

\* C30: for a name lhs that is not in seq and is neither x nor y, the output
\* of _replace_all(seq, (x, y), lhs) has no adjacent (x, y), is shorter
\* than seq by exactly the number of lhs it holds, and gives seq back when
\* every lhs is replaced by x, y.  Checked on the working sequence of every
\* loop state with the next rule name, for every digram over its symbols.
C30_ReplaceAllAlgebra ==
    (pc = "loop" /\ RuleName(rule_id) \notin Elems(sequence)) =>
        \A x, y \in Elems(sequence) :
            LET lhs == RuleName(rule_id)
                out == ReplaceAll(sequence, <<x, y>>, lhs)
                n == Cardinality({k \in 1..Len(out) : out[k] = lhs})
            IN  /\ \A k \in 1..(Len(out) - 1) : ~(out[k] = x /\ out[k + 1] = y)
                /\ Len(out) = Len(sequence) - n
                /\ ExpandLhs(out, lhs, x, y) = sequence

\* C30 witness: the first substitution has replaced a digram of an input
\* without rule names at two places or more, leaving a sequence shorter by
\* the number of R1 in it, in which a digram over R1 repeats.
C30_Witness ==
    /\ pc = "loop"
    /\ rule_id = 2
    /\ NoRuleNameToken
    /\ Cardinality({k \in 1..Len(sequence) : sequence[k] = "R1"}) >= 2
    /\ Len(sequence) = Len(tokens) - Cardinality({k \in 1..Len(sequence) : sequence[k] = "R1"})
    /\ ExpandLhs(sequence, "R1", RhsOf(grammar, "R1")[1], RhsOf(grammar, "R1")[2]) = tokens
    /\ CanSubstitute(sequence)

====
